---- MODULE Spec2Model ----
(***************************************************************************)
(* The Craft Blocks API client (package client) and the remote document it *)
(* talks to.  One call of a client method is one action: it builds the     *)
(* HTTP request, hands it to HTTPClient.Do, and turns the response into    *)
(* the (result, error) pair the method returns.  The call frame is kept    *)
(* in the variables until the caller drops it (Return).                    *)
(***************************************************************************)
EXTENDS Integers, Sequences, FiniteSets, TLC

VARIABLES
    client,     \* the *Client the calls are made on: [BaseURL, HTTPClient]
    doc,        \* the remote document: ids of the root page's blocks, in document order
    pc,         \* "idle": no call in progress; "returned": a call has returned
    op,         \* name of the method of the last call
    args,       \* its arguments
    requests,   \* the requests handed to HTTPClient.Do during the call, in order
    exchange,   \* what HTTPClient.Do gave back: [err, resp, origin]
    steps,      \* the steps of the method that were executed, in order
    docBefore,  \* the remote document when the call was made
    result,     \* first return value
    err,        \* second return value (NoErr is nil)
    calls,      \* calls made concurrently on the one Client: a frame for each caller
    content,    \* the remote document: the markdown of each block
    minted,     \* the remote document: how many block ids it has assigned
    prev,       \* the call a caller made before its current one, with its outcome
    handlers    \* the demo server: a frame for each request it is handling

vars == <<client, doc, pc, op, args, requests, exchange, steps, docBefore, result, err,
          calls, content, minted, prev, handlers>>

\* the frame of the single call, and what lies outside it
frame == <<pc, op, args, requests, exchange, steps, docBefore, result, err>>
remote == <<doc, content, minted>>

----------------------------------------------------------------------------
(* Bounds of the model *)

\* longest blockIds list of a request
MaxIDs == 2
\* longest "items" array of a response
MaxItems == 2

(* Program constants *)

StatusOK == 200
StatusMultiStatus == 207

----------------------------------------------------------------------------
(* Small input sets *)

RootID == "0"
\* "1" and "2" exist in the initial document, "9" never does
BlockIds == {"1", "2", "9"}
InitialDoc == <<"1", "2">>

GoodBaseURL == "https://connect.craft.do/api/v1"
\* url.Parse rejects it (invalid URL escape), so http.NewRequest fails
BadBaseURL == "https://connect.craft.do/%zz"
BaseURLs == {GoodBaseURL, BadBaseURL}

Statuses == {StatusOK, StatusMultiStatus, 404, 500}

SeqsUpTo(S, n) == UNION {[1..k -> S] : k \in 0..n}

Range(s) == {s[i] : i \in 1..Len(s)}

----------------------------------------------------------------------------
(* Response bodies: the JSON text a body holds, by its structure.          *)

\* a "width" member: absent, null, a string or a number (val: its text)
NoWidth == [kind |-> "absent", val |-> ""]
NullWidth == [kind |-> "null", val |-> "null"]
WidthString(s) == [kind |-> "string", val |-> s]
WidthNumber(digits) == [kind |-> "number", val |-> digits]
WidthMembers == {NoWidth, NullWidth, WidthString("auto"), WidthNumber("600"), WidthString("600")}

\* elements of an "items" array
\* (an absent "markdown" or "blockId" member is "", an absent "beforeBlocks"
\* member is <<>>)
ElemObj(id) ==
    [kind |-> "object", idKind |-> "string", id |-> id, markdown |-> "", blockId |-> "",
     before |-> <<>>, width |-> NoWidth]
ElemNoId    == [ElemObj("") EXCEPT !.idKind = "absent"]
ElemBadId   == [ElemObj("") EXCEPT !.idKind = "number"]
ElemNull    == [ElemObj("") EXCEPT !.kind = "null", !.idKind = "absent"]
ElemNumber  == [ElemObj("") EXCEPT !.kind = "number", !.idKind = "absent"]
\* a block object with its "id" and "markdown" members
ElemBlock(id, md) == [ElemObj(id) EXCEPT !.markdown = md]
\* a search match with its "blockId" and "markdown" members
ElemMatch(id, md) == [ElemNoId EXCEPT !.blockId = id, !.markdown = md]
\* a context block of a search match, and a match with its "beforeBlocks" member
ContextBlock(id, md) == [blockId |-> id, markdown |-> md]
ElemMatchIn(id, md, before) == [ElemMatch(id, md) EXCEPT !.before = before]

IdElems == {ElemObj(i) : i \in BlockIds}
Elems == IdElems \cup {ElemNoId, ElemNull, ElemNumber}

\* syntax: "empty" (no bytes), "text" (not JSON), "null", "nonobject" (a JSON
\* number), "object".  For an object: its "items", "id", "markdown" and
\* "content" members (an absent markdown is "", an absent content is <<>>).
\* trailing: bytes that are not JSON follow the first JSON value.
Body(syntax, itemsKind, items, idKind, id, text, trailing) ==
    [syntax |-> syntax, itemsKind |-> itemsKind, items |-> items,
     idKind |-> idKind, id |-> id, text |-> text, trailing |-> trailing,
     markdown |-> "", content |-> <<>>, width |-> NoWidth]

EmptyBody     == Body("empty", "absent", <<>>, "absent", "", "", FALSE)
TextBody(t)   == Body("text", "absent", <<>>, "absent", "", t, FALSE)
NullBody      == Body("null", "absent", <<>>, "absent", "", "", FALSE)
NumberBody    == Body("nonobject", "absent", <<>>, "absent", "", "", FALSE)
Envelope(its) == Body("object", "array", its, "absent", "", "", FALSE)
ItemsNull     == Body("object", "null", <<>>, "absent", "", "", FALSE)
ItemsString   == Body("object", "nonarray", <<>>, "absent", "", "", FALSE)
EmptyObject   == Body("object", "absent", <<>>, "absent", "", "", FALSE)
BlockBody(id) == Body("object", "absent", <<>>, "string", id, "", FALSE)
BlockBadId    == Body("object", "absent", <<>>, "number", "", "", FALSE)
\* a block object with its markdown and its child blocks
BlockDoc(id, md, kids) == [BlockBody(id) EXCEPT !.markdown = md, !.content = kids]
\* an image block with its "width" member
BlockWide(id, w) == [BlockBody(id) EXCEPT !.width = w]
Trailing(b)   == [b EXCEPT !.trailing = TRUE, !.text = "<html>"]

Texts == {"# Title", "Bad Gateway"}

Envelopes == {Envelope(its) : its \in SeqsUpTo(Elems, MaxItems)}

Bodies ==
    Envelopes
    \cup {Envelope(<<ElemBadId>>), ItemsNull, ItemsString, EmptyObject}
    \cup {Trailing(Envelope(<<>>)), Trailing(Envelope(<<ElemObj("1")>>)), Trailing(ItemsNull)}
    \cup {BlockBody(i) : i \in {RootID, "1"}} \cup {BlockBadId}
    \cup {BlockWide("1", w) : w \in WidthMembers \ {NoWidth}}
    \cup {EmptyBody, NullBody, NumberBody} \cup {TextBody(t) : t \in Texts}

\* the bytes of a body, as string(body) gives them
RECURSIVE RenderContext(_)
RenderContext(s) ==
    IF s = <<>> THEN ""
    ELSE "{\"blockId\":\"" \o s[1].blockId \o "\",\"markdown\":\"" \o s[1].markdown \o "\"}"
             \o (IF Len(s) = 1 THEN "" ELSE "," \o RenderContext(Tail(s)))

RECURSIVE RenderElems(_)
RenderElem(e) ==
    CASE e.kind = "null"   -> "null"
      [] e.kind = "number" -> "5"
      [] e.blockId # "" ->
            "{\"blockId\":\"" \o e.blockId \o "\",\"markdown\":\"" \o e.markdown
                \o "\",\"beforeBlocks\":[" \o RenderContext(e.before) \o "]}"
      [] e.idKind = "string" /\ e.markdown # "" ->
            "{\"id\":\"" \o e.id \o "\",\"markdown\":\"" \o e.markdown \o "\"}"
      [] e.idKind = "string" -> "{\"id\":\"" \o e.id \o "\"}"
      [] e.idKind = "number" -> "{\"id\":5}"
      [] OTHER -> "{}"
RenderElems(s) ==
    IF s = <<>> THEN ""
    ELSE IF Len(s) = 1 THEN RenderElem(s[1])
    ELSE RenderElem(s[1]) \o "," \o RenderElems(Tail(s))

RawText(b) ==
    LET value ==
          CASE b.syntax = "empty" -> ""
            [] b.syntax = "text" -> b.text
            [] b.syntax = "null" -> "null"
            [] b.syntax = "nonobject" -> "5"
            [] b.itemsKind = "array" -> "{\"items\":[" \o RenderElems(b.items) \o "]}"
            [] b.itemsKind = "null" -> "{\"items\":null}"
            [] b.itemsKind = "nonarray" -> "{\"items\":\"none\"}"
            [] b.idKind = "string" /\ b.width.kind # "absent" ->
                  "{\"id\":\"" \o b.id \o "\",\"type\":\"image\",\"width\":"
                      \o (IF b.width.kind = "string" THEN "\"" \o b.width.val \o "\""
                          ELSE b.width.val) \o "}"
            [] b.idKind = "string" /\ (b.markdown # "" \/ b.content # <<>>) ->
                  "{\"id\":\"" \o b.id \o "\",\"markdown\":\"" \o b.markdown
                      \o "\",\"content\":[" \o RenderElems(b.content) \o "]}"
            [] b.idKind = "string" -> "{\"id\":\"" \o b.id \o "\",\"type\":\"page\"}"
            [] b.idKind = "number" -> "{\"id\":5}"
            [] OTHER -> "{}"
    IN  IF b.trailing THEN value \o b.text ELSE value

\* readErr: reading the body ends with an error instead of EOF, after the
\* bytes of body have been delivered
Response(status, body, readErr) == [status |-> status, body |-> body, readErr |-> readErr]

BrokenBodies == {EmptyBody, NullBody, TextBody("# Title"), Envelope(<<ElemObj("1")>>)}

Responses ==
    {Response(s, b, FALSE) : s \in Statuses, b \in Bodies}
    \cup {Response(s, b, TRUE) : s \in Statuses, b \in BrokenBodies}

NoResponse == Response(0, EmptyBody, FALSE)

----------------------------------------------------------------------------
(* Errors: the message prefix fmt.Errorf gives them, and for a status error *)
(* the status code and the body text formatted into the message.            *)

NoErr == [msg |-> "", code |-> 0, text |-> ""]
Errorf(msg) == [msg |-> msg, code |-> 0, text |-> ""]
\* fmt.Errorf("unexpected status %d: %s", resp.StatusCode, string(body)); the
\* error of io.ReadAll is dropped, body is what was read
StatusError(resp) ==
    [msg |-> "unexpected status", code |-> resp.status, text |-> RawText(resp.body)]

----------------------------------------------------------------------------
(* Request construction *)

NoParams == <<>>
\* url.Values.Add, for a key that is added once
Add(params, key, value) ==
    [k \in DOMAIN params \cup {key} |-> IF k = key THEN value ELSE params[k]]

\* url.QueryEscape on the strings used here
QueryEscape(s) ==
    CASE s = "a b" -> "a+b"
      [] s = "a.*" -> "a.%2A"
      [] OTHER -> s

\* the parameter names, in the sorted order url.Values.Encode writes them
SortedKeys ==
    <<"afterBlockCount", "beforeBlockCount", "caseSensitive", "fetchMetadata",
      "id", "maxDepth", "pattern">>

\* url.Values.Encode: key=value pairs sorted by key, values escaped
Encode(params) ==
    LET present == SelectSeq(SortedKeys, LAMBDA k : k \in DOMAIN params)
    IN  [i \in 1..Len(present) |-> <<present[i], QueryEscape(params[present[i]])>>]

\* strconv.Itoa
Itoa(n) == ToString(n)

\* a request URL: fmt.Sprintf("%s/blocks", c.BaseURL), then "?" and the
\* encoded parameters when there are any
URL(base, path, mark, query) == [base |-> base, path |-> path, mark |-> mark, query |-> query]

RECURSIVE RenderQuery(_)
RenderQuery(q) ==
    IF q = <<>> THEN ""
    ELSE q[1][1] \o "=" \o q[1][2] \o (IF Len(q) > 1 THEN "&" \o RenderQuery(Tail(q)) ELSE "")

URLString(u) == u.base \o u.path \o u.mark \o RenderQuery(u.query)

NoHeader == [Accept |-> "", ContentType |-> ""]
NoReqBody == [kind |-> "none"]

\* http.NewRequest: fails when the URL does not parse
NewRequest(method, url, body) ==
    [ok |-> url.base # BadBaseURL,
     req |-> [method |-> method, url |-> url, header |-> NoHeader, body |-> body]]

\* the members encoding/json writes for a struct: a member tagged omitempty
\* is left out when its field holds the zero value
Members(always, whenSet) == always \cup {m[1] : m \in {x \in whenSet : x[2]}}

\* an encoding that writes only the identifier the chosen form calls for
MutEncodePositionByForm(p) ==
    [Position |-> p.Position,
     PageID |-> IF p.Position \in {"start", "end"} THEN p.PageID ELSE "",
     SiblingID |-> IF p.Position \in {"before", "after"} THEN p.SiblingID ELSE "",
     members |-> Members({"position"},
                         {<<"pageId", p.Position \in {"start", "end"} /\ p.PageID # "">>,
                          <<"siblingId", p.Position \in {"before", "after"} /\ p.SiblingID # "">>})]

\* Position: position always, pageId and siblingId with omitempty
EncodePosition(p) ==
    [Position |-> p.Position, PageID |-> p.PageID, SiblingID |-> p.SiblingID,
     members |-> Members({"position"},
                         {<<"pageId", p.PageID # "">>, <<"siblingId", p.SiblingID # "">>})]

\* an encoding that writes the id member of every block
MutEncodeBlockAlwaysID(b) ==
    [ID |-> b.ID, Markdown |-> b.Markdown, Width |-> b.Width,
     members |-> Members({"type", "id"},
                         {<<"markdown", b.Markdown # "">>, <<"width", b.Width # "nil">>})]

\* Block: type always, id, markdown and width with omitempty
EncodeBlock(b) ==
    [ID |-> b.ID, Markdown |-> b.Markdown, Width |-> b.Width,
     members |-> Members({"type"},
                         {<<"id", b.ID # "">>, <<"markdown", b.Markdown # "">>,
                          <<"width", b.Width # "nil">>})]

EncodeBlocks(bs) == [i \in 1..Len(bs) |-> EncodeBlock(bs[i])]

\* an encoding that drops the markdown of a request that also has blocks
MutEncodeOneContentForm(v) ==
    [kind |-> v.kind, blocks |-> EncodeBlocks(v.blocks),
     markdown |-> IF Len(v.blocks) > 0 THEN "" ELSE v.markdown,
     position |-> EncodePosition(v.position),
     members |-> Members({"position"},
                         {<<"blocks", Len(v.blocks) > 0>>,
                          <<"markdown", Len(v.blocks) = 0 /\ v.markdown # "">>})]

\* InsertRequest: position always, blocks and markdown with omitempty
EncodeInsertRequest(v) ==
    [kind |-> v.kind, blocks |-> EncodeBlocks(v.blocks), markdown |-> v.markdown,
     position |-> EncodePosition(v.position),
     members |-> Members({"position"},
                         {<<"blocks", Len(v.blocks) > 0>>, <<"markdown", v.markdown # "">>})]

\* the JSON object of each request struct, by its field tags
EncodeRequest(v) ==
    CASE v.kind = "InsertRequest" -> EncodeInsertRequest(v)
      [] v.kind = "UpdateRequest" ->
            [kind |-> v.kind, blocks |-> EncodeBlocks(v.blocks), members |-> {"blocks"}]
      [] v.kind = "DeleteRequest" ->
            [kind |-> v.kind, blockIds |-> v.blockIds, members |-> {"blockIds"}]
      [] v.kind = "MoveRequest" ->
            [kind |-> v.kind, blockIds |-> v.blockIds,
             position |-> EncodePosition(v.position),
             members |-> {"blockIds", "position"}]
      [] v.kind = "UploadLinkRequest" ->
            [kind |-> v.kind, fileName |-> v.fileName, mimeType |-> v.mimeType,
             members |-> Members({"fileName"}, {<<"mimeType", v.mimeType # "">>})]

\* json.Marshal of a request struct: fails on a Block whose Width (any) holds
\* a value JSON cannot encode
Marshal(v) ==
    [ok |-> (v.kind \in {"InsertRequest", "UpdateRequest"}
                => \A i \in 1..Len(v.blocks) : v.blocks[i].Width # "chan"),
     body |-> EncodeRequest(v)]

----------------------------------------------------------------------------
(* The remote document service, as its API documentation describes it *)

Orders(S) == {s \in [1..Cardinality(S) -> S] : Range(s) = S}

RECURSIVE Dedup(_)
Dedup(s) ==
    IF s = <<>> THEN <<>>
    ELSE <<s[1]>> \o Dedup(SelectSeq(Tail(s), LAMBDA x : x # s[1]))

Without(d, S) == SelectSeq(d, LAMBDA x : x \notin S)

IndexOf(d, x) == CHOOSE i \in 1..Len(d) : d[i] = x

BatchStatus(requested, found) ==
    IF Range(requested) \subseteq found THEN StatusOK ELSE StatusMultiStatus

\* DELETE /blocks: removes the blocks of blockIds that exist; the answer lists
\* the deleted ids (in an order the remote chooses), 207 when some were not found
RemoteDelete(req, d) ==
    LET found == Range(req.body.blockIds) \cap Range(d)
    IN  {[resp |-> Response(BatchStatus(req.body.blockIds, found),
                            Envelope([i \in 1..Len(order) |-> ElemObj(order[i])]), FALSE),
          doc |-> Without(d, found)] : order \in Orders(found)}

\* where a position points to in the sequence rest, or 0 when it points nowhere
TargetIndex(p, rest) ==
    CASE p.Position = "start" /\ p.PageID = RootID -> 1
      [] p.Position = "end" /\ p.PageID = RootID -> Len(rest) + 1
      [] p.Position = "before" /\ p.SiblingID \in Range(rest) -> IndexOf(rest, p.SiblingID)
      [] p.Position = "after" /\ p.SiblingID \in Range(rest) -> IndexOf(rest, p.SiblingID) + 1
      [] OTHER -> 0

\* PUT /blocks/move: moves the blocks of blockIds that exist to the position;
\* the answer lists the moved ids, 207 when some were not found
RemoteMove(req, d) ==
    LET moved == SelectSeq(Dedup(req.body.blockIds), LAMBDA x : x \in Range(d))
        found == Range(moved)
        rest == Without(d, found)
        at == TargetIndex(req.body.position, rest)
    IN  IF at = 0
        THEN {[resp |-> Response(404, TextBody("Bad Gateway"), FALSE), doc |-> d]}
        ELSE {[resp |-> Response(BatchStatus(req.body.blockIds, found),
                                 Envelope([i \in 1..Len(order) |-> ElemObj(order[i])]), FALSE),
               doc |-> SubSeq(rest, 1, at - 1) \o moved \o SubSeq(rest, at, Len(rest))]
                : order \in Orders(found)}

\* what the remote does with a request: the possible (response, new document)
RemoteServe(req, d) ==
    CASE req.method = "DELETE" /\ req.url.path = "/blocks" -> RemoteDelete(req, d)
      [] req.method = "PUT" /\ req.url.path = "/blocks/move" -> RemoteMove(req, d)
      [] OTHER -> {}

\* answers that reach the client although the remote applied the request
GarbledResponses == {Response(500, TextBody("Bad Gateway"), FALSE), Response(StatusOK, EmptyBody, FALSE)}

\* c.HTTPClient.Do(req): the possible outcomes of the round trip.
\* origin "remote": the documented answer of the remote; "other": any other answer
\* others: the answers that are not the remote's
RoundTripsWith(req, d, others) ==
    {[err |-> TRUE, resp |-> NoResponse, doc |-> d, origin |-> "none"]}
    \cup {[err |-> TRUE, resp |-> NoResponse, doc |-> s.doc, origin |-> "none"]
             : s \in RemoteServe(req, d)}
    \cup {[err |-> FALSE, resp |-> s.resp, doc |-> s.doc, origin |-> "remote"]
             : s \in RemoteServe(req, d)}
    \cup {[err |-> FALSE, resp |-> r, doc |-> d, origin |-> "other"] : r \in others}
    \cup {[err |-> FALSE, resp |-> r, doc |-> s.doc, origin |-> "other"]
             : r \in GarbledResponses, s \in RemoteServe(req, d)}

RoundTrips(req, d) == RoundTripsWith(req, d, Responses)

NoExchange == [err |-> FALSE, resp |-> NoResponse, doc |-> <<>>, origin |-> "none"]

----------------------------------------------------------------------------
(* The remote document with its content: insert, fetch and search *)

\* most blocks the remote inserts
MaxNew == 2

\* the identifier the remote assigns to the k-th block it inserts
NewID(k) == ToString(2 + k)

RootMarkdown == "<page>Document Title</page>"

\* the value of a query parameter of the request, "" when it is not there
QueryParam(req, key) ==
    LET q == req.url.query
    IN  IF \E i \in 1..Len(q) : q[i][1] = key
        THEN q[CHOOSE i \in 1..Len(q) : q[i][1] = key][2]
        ELSE ""

NotFound == Response(404, TextBody("Not Found"), FALSE)
BadRequest == Response(400, TextBody("Bad Request"), FALSE)

\* the state of the remote: the order of the blocks, their markdown, the ids assigned
Remote(d, c, n) == [doc |-> d, content |-> c, minted |-> n]
Served(resp, r) == [resp |-> resp, doc |-> r.doc, content |-> r.content, minted |-> r.minted]

\* the markdown of the blocks to insert, by the content form of the body; the
\* documentation does not say which form wins when a body has both, or
\* whether such a body is refused (<<>>: refused)
InsertedContent(body) ==
    LET ofBlocks == [i \in 1..Len(body.blocks) |-> body.blocks[i].Markdown]
        ofMarkdown == <<body.markdown>>
    IN  CASE {"blocks", "markdown"} \subseteq body.members -> {ofBlocks, ofMarkdown, <<>>}
          [] "blocks" \in body.members -> {ofBlocks}
          [] "markdown" \in body.members -> {ofMarkdown}
          [] OTHER -> {<<>>}

\* POST /blocks: inserts the blocks at the position, in the order given, and
\* answers with the inserted blocks and the ids assigned to them
RemoteInsert(req, r) ==
    LET at == TargetIndex(req.body.position, r.doc)
        insert(mds) ==
            LET k == Len(mds)
                ids == [i \in 1..k |-> NewID(r.minted + i)]
            IN  Served(Response(StatusOK,
                                Envelope([i \in 1..k |-> ElemBlock(ids[i], mds[i])]), FALSE),
                       Remote(SubSeq(r.doc, 1, at - 1) \o ids \o SubSeq(r.doc, at, Len(r.doc)),
                              [x \in DOMAIN r.content \cup Range(ids) |->
                                  IF x \in DOMAIN r.content THEN r.content[x]
                                  ELSE mds[IndexOf(ids, x)]],
                              r.minted + k))
    IN  {IF mds = <<>> THEN Served(BadRequest, r)
         ELSE IF at = 0 THEN Served(NotFound, r)
         ELSE insert(mds)
            : mds \in {m \in InsertedContent(req.body) : r.minted + Len(m) <= MaxNew}}

\* GET /blocks: the block with the id, the root page without id; with its
\* child blocks unless maxDepth is 0
RemoteFetch(req, r) ==
    LET id == QueryParam(req, "id")
        kids == IF QueryParam(req, "maxDepth") = "0" THEN <<>>
                ELSE [i \in 1..Len(r.doc) |-> ElemBlock(r.doc[i], r.content[r.doc[i]])]
    IN  CASE id \in {"", RootID} -> {Served(Response(StatusOK, BlockDoc(RootID, RootMarkdown, kids), FALSE), r)}
          [] id \in Range(r.doc) -> {Served(Response(StatusOK, BlockDoc(id, r.content[id], <<>>), FALSE), r)}
          [] OTHER -> {Served(NotFound, r)}

\* the markdown a search pattern matches (the pattern is a regular expression)
Matches(pattern, md) ==
    CASE pattern = "a.%2A" -> md \in {"alpha", "beta"}
      [] pattern = "Hello" -> md = "Hello"
      [] OTHER -> FALSE

\* GET /blocks/search: the blocks whose markdown the pattern matches, in
\* document order; the pattern is required
\* the numbers of context blocks a request asks for: the value of its count
\* parameter; the documentation gives no default for a request without the
\* parameter, so none or one block are both possible; {} when the value is
\* no number of one digit
ContextCounts(req, key) ==
    LET v == QueryParam(req, key)
    IN  IF v = "" THEN {0, 1}
        ELSE {n \in 0..9 : Itoa(n) = v}

\* the blocks before block x in document order, the nearest n of them
BlocksBefore(x, n, r) ==
    LET at == IndexOf(r.doc, x)
        from == IF at - n < 1 THEN 1 ELSE at - n
    IN  [i \in 1..(at - from) |->
            ContextBlock(r.doc[from + i - 1], r.content[r.doc[from + i - 1]])]

RemoteSearch(req, r) ==
    LET found == SelectSeq(r.doc, LAMBDA x : Matches(QueryParam(req, "pattern"), r.content[x]))
        counts == ContextCounts(req, "beforeBlockCount")
    IN  IF QueryParam(req, "pattern") = "" \/ counts = {} THEN {Served(BadRequest, r)}
        ELSE {Served(Response(StatusOK,
                              Envelope([i \in 1..Len(found) |->
                                           ElemMatchIn(found[i], r.content[found[i]],
                                                       BlocksBefore(found[i], n, r))]),
                              FALSE), r) : n \in counts}

\* what the remote does with a request: the possible (response, new state)
RemoteServeContent(req, r) ==
    CASE req.method = "POST" /\ req.url.path = "/blocks" -> RemoteInsert(req, r)
      [] req.method = "GET" /\ req.url.path = "/blocks" /\ req.header.Accept = "application/json" ->
            RemoteFetch(req, r)
      [] req.method = "GET" /\ req.url.path = "/blocks/search" -> RemoteSearch(req, r)
      [] OTHER -> {Served(s.resp, [r EXCEPT !.doc = s.doc]) : s \in RemoteServe(req, r.doc)}

\* the answers that are not the remote's, for calls on the document with content
FaultResponses ==
    {Response(500, TextBody("Bad Gateway"), FALSE),
     Response(StatusOK, EmptyBody, FALSE),
     Response(StatusOK, EmptyObject, FALSE),
     Response(StatusOK, Envelope(<<>>), FALSE),
     Response(StatusOK, ItemsNull, FALSE),
     Response(StatusOK, Envelope(<<ElemBlock("9", "other")>>), FALSE),
     Response(StatusOK, BlockDoc("9", "other", <<>>), FALSE),
     Response(StatusMultiStatus, Envelope(<<ElemObj("1")>>), FALSE)}

\* c.HTTPClient.Do(req) on the document with content: the request does not
\* arrive; it is served and the answer is lost; it is served and answered;
\* another answer comes back, the request served or not
Exchanges(req, r) ==
    LET served == RemoteServeContent(req, r)
        outcome(e, resp, origin, s) ==
            [err |-> e, resp |-> resp, origin |-> origin,
             doc |-> s.doc, content |-> s.content, minted |-> s.minted]
    IN  {outcome(TRUE, NoResponse, "none", r)}
        \cup {outcome(TRUE, NoResponse, "none", s) : s \in served}
        \cup {outcome(FALSE, s.resp, "remote", s) : s \in served}
        \cup {outcome(FALSE, x, "other", r) : x \in FaultResponses}
        \cup {outcome(FALSE, x, "other", s) : x \in GarbledResponses, s \in served}

----------------------------------------------------------------------------
(* Response decoding (encoding/json) *)

RawNil == [kind |-> "nil", elems |-> <<>>]

\* json.NewDecoder(resp.Body).Decode(&itemsResp): reads the first JSON value
\* of the body; Items keeps the raw "items" member (json.RawMessage)
DecodeItemsResponse(resp) ==
    LET b == resp.body
    IN  CASE b.syntax = "object" ->
               [ok |-> TRUE,
                Items |-> IF b.itemsKind = "absent" THEN RawNil
                          ELSE [kind |-> b.itemsKind, elems |-> b.items]]
          [] b.syntax = "null" /\ ~resp.readErr -> [ok |-> TRUE, Items |-> RawNil]
          [] OTHER -> [ok |-> FALSE, Items |-> RawNil]

\* an array element decodes into a struct unless it is no object or a member
\* has the wrong type; null leaves the zero value
\* (SearchMatch has no "id" field, so an "id" member of any type is skipped)
ElemDecodes(e, type) == e.kind # "number" /\ (type # "SearchMatch" => e.idKind # "number")

\* json.Unmarshal(itemsResp.Items, &slice): the elements that were decoded;
\* when an element does not decode the error is returned at the end, and the
\* slice holds what the other elements and members gave
UnmarshalItems(raw, type) ==
    CASE raw.kind = "array" ->
           [ok |-> \A i \in 1..Len(raw.elems) : ElemDecodes(raw.elems[i], type),
            elems |-> raw.elems]
      [] raw.kind = "null" -> [ok |-> TRUE, elems |-> <<>>]
      [] OTHER -> [ok |-> FALSE, elems |-> <<>>]

----------------------------------------------------------------------------
(* Values the methods return *)

\* a slice: nil, or a list of elements
NilSlice == [isNil |-> TRUE, elems |-> <<>>]
Slice(elems) == [isNil |-> FALSE, elems |-> elems]
\* a pointer: nil, or pointing to a value
NilPtr == [isNil |-> TRUE]
Ptr(v) == [isNil |-> FALSE, val |-> v]

\* the zero Block, and a Block decoded from a JSON object: its "id" and
\* "markdown" members, without child blocks
\* a Width value (any): nil, a string, or a float64 (val: its text)
NilWidth == [type |-> "nil", val |-> ""]
\* mutant: Width is a number of pixels; what is no number leaves it 0
MutWidthAsPixels(w) ==
    [type |-> "float64", val |-> IF w.kind = "number" THEN w.val ELSE "0"]
\* decoding into Width any: a JSON string gives a string, a JSON number a
\* float64, null or no member leaves nil
DecodeWidth(w) ==
    CASE w.kind = "string" -> [type |-> "string", val |-> w.val]
      [] w.kind = "number" -> [type |-> "float64", val |-> w.val]
      [] OTHER -> NilWidth

ZeroBlock == [ID |-> "", Markdown |-> "", Content |-> <<>>, Width |-> NilWidth]
\* mutant: the markdown member is not decoded
MutBlockOfIDOnly(o) ==
    [ID |-> o.id, Markdown |-> "", Content |-> <<>>, Width |-> DecodeWidth(o.width)]
BlockOf(o) ==
    [ID |-> o.id, Markdown |-> o.markdown, Content |-> <<>>, Width |-> DecodeWidth(o.width)]
\* the zero SearchMatch, and a SearchMatch decoded from a JSON object
ZeroSearchMatch == [BlockID |-> "", Markdown |-> "", BeforeBlocks |-> <<>>]
\* mutant: the context blocks are not decoded
MutSearchMatchNoContext(o) ==
    [BlockID |-> o.blockId, Markdown |-> o.markdown, BeforeBlocks |-> <<>>]
SearchMatchOf(o) ==
    [BlockID |-> o.blockId, Markdown |-> o.markdown,
     BeforeBlocks |-> [i \in 1..Len(o.before) |->
                          [BlockID |-> o.before[i].blockId, Markdown |-> o.before[i].markdown]]]
ZeroUploadLink == [UploadURL |-> "", RawURL |-> ""]

\* mutant: 207 passes the status test of the six methods as well
MutAlsoMultiStatus(code) == code = StatusOK \/ code = StatusMultiStatus
\* mutant: the status is not tested
MutAnyStatus(code) == TRUE
\* resp.StatusCode != http.StatusOK is the failure test of six methods
OnlyOK(code) == code = StatusOK
\* mutant: 207 is a failure for the batch methods too
MutRejectMultiStatus(code) == code = StatusOK
\* DeleteBlocks and MoveBlocks take 207 as well
OKOrMultiStatus(code) == code = StatusOK \/ code = StatusMultiStatus

\* what a method returns after the round trip: the steps it went through
\* after sending, the result and the error
Returns(stepsDone, res, e) == [steps |-> stepsDone, result |-> res, err |-> e]

\* mutant: the request is sent again after a transport failure or a 5xx answer
MutSentRetry(req, t) == IF t.err \/ t.resp.status >= 500 THEN <<req, req>> ELSE <<req>>
\* the requests handed to HTTPClient.Do in one call: Do is called once
Sent(req, t) == <<req>>

----------------------------------------------------------------------------
(* FetchBlocks *)

\* mutant: every negative maxDepth is left out, not only -1
MutFetchParamsNegative(id, maxDepth) ==
    LET p1 == IF id # "" THEN Add(NoParams, "id", id) ELSE NoParams
    IN  IF maxDepth >= 0 THEN Add(p1, "maxDepth", Itoa(maxDepth)) ELSE p1

\* mutant: params is kept between the calls, so a call without id goes out
\* with the id of the fetch before it
MutFetchParamsKept(id, maxDepth) ==
    LET kept == IF id = "" /\ prev.op = "FetchBlocks" THEN prev.args.id ELSE id
        p1 == IF kept # "" THEN Add(NoParams, "id", kept) ELSE NoParams
    IN  IF maxDepth # -1 THEN Add(p1, "maxDepth", Itoa(maxDepth)) ELSE p1

\* the id and maxDepth parameters, shared by both fetch methods
FetchParams(id, maxDepth) ==
    LET p1 == IF id # "" THEN Add(NoParams, "id", id) ELSE NoParams
    IN  IF maxDepth # -1 THEN Add(p1, "maxDepth", Itoa(maxDepth)) ELSE p1

WithQuery(base, path, params) ==
    IF DOMAIN params # {}
    THEN URL(base, path, "?", Encode(params))
    ELSE URL(base, path, "", <<>>)

FetchBlocksRequest(c, id, maxDepth, fetchMetadata) ==
    LET p2 == FetchParams(id, maxDepth)
        params == IF fetchMetadata THEN Add(p2, "fetchMetadata", "true") ELSE p2
        built == NewRequest("GET", WithQuery(c.BaseURL, "/blocks", params), NoReqBody)
    IN  [ok |-> built.ok, msg |-> "creating request",
         req |-> [built.req EXCEPT !.header.Accept = "application/json"]]

\* json.NewDecoder(resp.Body).Decode(&block)
DecodeBlock(resp) ==
    LET b == resp.body
    IN  CASE b.syntax = "object" ->
                 [ok |-> b.idKind # "number",
                  block |-> [BlockOf(b) EXCEPT
                                !.Content = [i \in 1..Len(b.content) |-> BlockOf(b.content[i])]]]
          [] b.syntax = "null" /\ ~resp.readErr -> [ok |-> TRUE, block |-> ZeroBlock]
          [] OTHER -> [ok |-> FALSE, block |-> ZeroBlock]

FetchBlocksResponse(t) ==
    IF t.err THEN Returns(<<"send">>, NilPtr, Errorf("executing request"))
    ELSE IF ~OnlyOK(t.resp.status)
    THEN Returns(<<"send", "status">>, NilPtr, StatusError(t.resp))
    ELSE LET d == DecodeBlock(t.resp)
         IN  IF ~d.ok
             THEN Returns(<<"send", "status", "decode">>, NilPtr, Errorf("decoding response"))
             ELSE Returns(<<"send", "status", "decode">>, Ptr(d.block), NoErr)

----------------------------------------------------------------------------
(* FetchBlocksMarkdown *)

FetchBlocksMarkdownRequest(c, id, maxDepth) ==
    LET params == FetchParams(id, maxDepth)
        built == NewRequest("GET", WithQuery(c.BaseURL, "/blocks", params), NoReqBody)
    IN  [ok |-> built.ok, msg |-> "creating request",
         req |-> [built.req EXCEPT !.header.Accept = "text/markdown"]]

\* mutant: the error of io.ReadAll is dropped, as it is on the status path
MutMarkdownDropsReadError(t) ==
    IF t.err THEN Returns(<<"send">>, "", Errorf("executing request"))
    ELSE IF ~OnlyOK(t.resp.status)
    THEN Returns(<<"send", "status">>, "", StatusError(t.resp))
    ELSE Returns(<<"send", "status", "decode">>, RawText(t.resp.body), NoErr)

FetchBlocksMarkdownResponse(t) ==
    IF t.err THEN Returns(<<"send">>, "", Errorf("executing request"))
    ELSE IF ~OnlyOK(t.resp.status)
    THEN Returns(<<"send", "status">>, "", StatusError(t.resp))
    ELSE IF t.resp.readErr
    THEN Returns(<<"send", "status", "decode">>, "", Errorf("reading response"))
    ELSE Returns(<<"send", "status", "decode">>, RawText(t.resp.body), NoErr)

----------------------------------------------------------------------------
(* The methods with a JSON request body and an {"items": [...]} answer *)

\* json.Marshal, http.NewRequest and the Content-Type header
JSONRequest(c, method, path, v) ==
    LET m == Marshal(v)
        built == NewRequest(method, URL(c.BaseURL, path, "", <<>>), m.body)
    IN  [ok |-> m.ok /\ built.ok,
         msg |-> IF ~m.ok THEN "marshaling request" ELSE "creating request",
         req |-> [built.req EXCEPT !.header.ContentType = "application/json"]]

\* the two decoding passes: the envelope, then its items
DecodeItems(resp, type, what) ==
    LET env == DecodeItemsResponse(resp)
        items == UnmarshalItems(env.Items, type)
    IN  IF ~env.ok THEN [ok |-> FALSE, msg |-> "decoding response", isNull |-> FALSE, elems |-> <<>>]
        ELSE IF ~items.ok
        THEN [ok |-> FALSE, msg |-> "unmarshaling " \o what, isNull |-> FALSE,
              elems |-> items.elems]
        ELSE [ok |-> TRUE, msg |-> "", isNull |-> env.Items.kind = "null", elems |-> items.elems]

\* mutant: the blocks come out in the reverse of the order of the items
MutBlocksOfReversed(d) ==
    IF d.isNull THEN NilSlice
    ELSE Slice([i \in 1..Len(d.elems) |-> BlockOf(d.elems[Len(d.elems) + 1 - i])])
\* var blocks []Block: nil when items is null
BlocksOf(d) ==
    IF d.isNull THEN NilSlice ELSE Slice([i \in 1..Len(d.elems) |-> BlockOf(d.elems[i])])

InsertBlocksRequest(c, req) == JSONRequest(c, "POST", "/blocks", req)

\* mutant: the insert takes only 201 Created for a success
MutInsertExpectsCreated(t) ==
    IF t.err THEN Returns(<<"send">>, NilSlice, Errorf("executing request"))
    ELSE IF t.resp.status # 201
    THEN Returns(<<"send", "status">>, NilSlice, StatusError(t.resp))
    ELSE Returns(<<"send", "status", "decode">>, NilSlice, NoErr)
InsertBlocksResponse(t) ==
    IF t.err THEN Returns(<<"send">>, NilSlice, Errorf("executing request"))
    ELSE IF ~OnlyOK(t.resp.status)
    THEN Returns(<<"send", "status">>, NilSlice, StatusError(t.resp))
    ELSE LET d == DecodeItems(t.resp, "Block", "blocks")
         IN  IF ~d.ok THEN Returns(<<"send", "status", "decode">>, NilSlice, Errorf(d.msg))
             ELSE Returns(<<"send", "status", "decode">>, BlocksOf(d), NoErr)

UpdateBlocksRequest(c, req) == JSONRequest(c, "PUT", "/blocks", req)

UpdateBlocksResponse(t) ==
    IF t.err THEN Returns(<<"send">>, NilSlice, Errorf("executing request"))
    ELSE IF ~OnlyOK(t.resp.status)
    THEN Returns(<<"send", "status">>, NilSlice, StatusError(t.resp))
    ELSE LET d == DecodeItems(t.resp, "Block", "blocks")
         IN  IF ~d.ok THEN Returns(<<"send", "status", "decode">>, NilSlice, Errorf(d.msg))
             ELSE Returns(<<"send", "status", "decode">>, BlocksOf(d), NoErr)

\* mutant: the ids are collected without repetitions
MutProjectDedup(elems) == Slice(Dedup([i \in 1..Len(elems) |-> elems[i].id]))
\* mutant: the ids are appended to the slice made with len(items) elements
MutProjectAppend(elems) ==
    Slice([i \in 1..2 * Len(elems) |->
              IF i <= Len(elems) THEN "" ELSE elems[i - Len(elems)].id])

\* ids := make([]string, len(items)); ids[i] = item.ID
ProjectIDs(elems) == Slice([i \in 1..Len(elems) |-> elems[i].id])

DeleteBlocksRequest(c, blockIDs) ==
    JSONRequest(c, "DELETE", "/blocks", [kind |-> "DeleteRequest", blockIds |-> blockIDs])

\* mutant: the ids decoded before the failure are returned with the error
MutDeleteKeepsPartial(t) ==
    IF t.err THEN Returns(<<"send">>, NilSlice, Errorf("executing request"))
    ELSE IF ~OKOrMultiStatus(t.resp.status)
    THEN Returns(<<"send", "status">>, NilSlice, StatusError(t.resp))
    ELSE LET d == DecodeItems(t.resp, "ID", "deleted IDs")
         IN  IF ~d.ok THEN Returns(<<"send", "status", "decode">>, ProjectIDs(d.elems), Errorf(d.msg))
             ELSE Returns(<<"send", "status", "decode">>, ProjectIDs(d.elems), NoErr)

DeleteBlocksResponse(t) ==
    IF t.err THEN Returns(<<"send">>, NilSlice, Errorf("executing request"))
    ELSE IF ~OKOrMultiStatus(t.resp.status)
    THEN Returns(<<"send", "status">>, NilSlice, StatusError(t.resp))
    ELSE LET d == DecodeItems(t.resp, "ID", "deleted IDs")
         IN  IF ~d.ok THEN Returns(<<"send", "status", "decode">>, NilSlice, Errorf(d.msg))
             ELSE Returns(<<"send", "status", "decode">>, ProjectIDs(d.elems), NoErr)

MoveBlocksRequest(c, req) == JSONRequest(c, "PUT", "/blocks/move", req)

MoveBlocksResponse(t) ==
    IF t.err THEN Returns(<<"send">>, NilSlice, Errorf("executing request"))
    ELSE IF ~OKOrMultiStatus(t.resp.status)
    THEN Returns(<<"send", "status">>, NilSlice, StatusError(t.resp))
    ELSE LET d == DecodeItems(t.resp, "ID", "moved IDs")
         IN  IF ~d.ok THEN Returns(<<"send", "status", "decode">>, NilSlice, Errorf(d.msg))
             ELSE Returns(<<"send", "status", "decode">>, ProjectIDs(d.elems), NoErr)

----------------------------------------------------------------------------
(* Search *)

\* mutant: a count of 0 is transmitted
MutCountParamZero(params, key, count) ==
    IF count >= 0 THEN Add(params, key, Itoa(count)) ELSE params

\* if count > 0 { params.Add(key, strconv.Itoa(count)) }
CountParam(params, key, count) ==
    IF count > 0 THEN Add(params, key, Itoa(count)) ELSE params

SearchRequest(c, pattern, caseSensitive, beforeCount, afterCount) ==
    LET p1 == Add(NoParams, "pattern", pattern)
        p2 == IF caseSensitive THEN Add(p1, "caseSensitive", "true") ELSE p1
        p3 == CountParam(p2, "beforeBlockCount", beforeCount)
        params == CountParam(p3, "afterBlockCount", afterCount)
        built == NewRequest("GET", URL(c.BaseURL, "/blocks/search", "?", Encode(params)), NoReqBody)
    IN  [ok |-> built.ok, msg |-> "creating request", req |-> built.req]

\* var matches []SearchMatch: nil when items is null
MatchesOf(d) ==
    IF d.isNull THEN NilSlice ELSE Slice([i \in 1..Len(d.elems) |-> SearchMatchOf(d.elems[i])])

SearchResponse(t) ==
    IF t.err THEN Returns(<<"send">>, NilSlice, Errorf("executing request"))
    ELSE IF ~OnlyOK(t.resp.status)
    THEN Returns(<<"send", "status">>, NilSlice, StatusError(t.resp))
    ELSE LET d == DecodeItems(t.resp, "SearchMatch", "search results")
         IN  IF ~d.ok THEN Returns(<<"send", "status", "decode">>, NilSlice, Errorf(d.msg))
             ELSE Returns(<<"send", "status", "decode">>, MatchesOf(d), NoErr)

----------------------------------------------------------------------------
(* GenerateUploadURL *)

GenerateUploadURLRequest(c, fileName, mimeType) ==
    JSONRequest(c, "POST", "/upload-link",
                [kind |-> "UploadLinkRequest", fileName |-> fileName, mimeType |-> mimeType])

\* json.NewDecoder(resp.Body).Decode(&uploadResp)
DecodeUploadLink(resp) ==
    LET b == resp.body
    IN  b.syntax = "object" \/ (b.syntax = "null" /\ ~resp.readErr)

GenerateUploadURLResponse(t) ==
    IF t.err THEN Returns(<<"send">>, NilPtr, Errorf("executing request"))
    ELSE IF ~OnlyOK(t.resp.status)
    THEN Returns(<<"send", "status">>, NilPtr, StatusError(t.resp))
    ELSE IF ~DecodeUploadLink(t.resp)
    THEN Returns(<<"send", "status", "decode">>, NilPtr, Errorf("decoding response"))
    ELSE Returns(<<"send", "status", "decode">>, Ptr(ZeroUploadLink), NoErr)

----------------------------------------------------------------------------
(* Arguments the calls are made with *)

\* largest count and depth arguments
MaxCount == 2

IdArgs == {"", "1", "a b"}
DepthArgs == -2..MaxCount
CountArgs == -1..MaxCount
Patterns == {"", "a.*"}

IDLists == SeqsUpTo(BlockIds, MaxIDs)

Pos(position, pageID, siblingID) ==
    [Position |-> position, PageID |-> pageID, SiblingID |-> siblingID]

Positions ==
    {Pos("end", RootID, ""), Pos("start", RootID, ""), Pos("after", "", "1"),
     Pos("before", "", "2"), Pos("end", RootID, "1"), Pos("after", "", "")}

\* a Block of a request: Width is nil, a number, "auto", or a value JSON cannot encode
ReqBlock(id, markdown, width) == [ID |-> id, Markdown |-> markdown, Width |-> width]

BlockLists ==
    {<<>>, <<ReqBlock("", "hi", "nil")>>, <<ReqBlock("1", "hi", "auto")>>,
     <<ReqBlock("", "hi", "chan")>>, <<ReqBlock("1", "a", "600"), ReqBlock("", "b", "nil")>>}

InsertRequests ==
    {[kind |-> "InsertRequest", blocks |-> bs, markdown |-> m, position |-> p]
        : bs \in BlockLists, m \in {"", "Hello"}, p \in Positions}

UpdateRequests == {[kind |-> "UpdateRequest", blocks |-> bs] : bs \in BlockLists}

MoveRequests ==
    {[kind |-> "MoveRequest", blockIds |-> ids, position |-> p] : ids \in IDLists, p \in Positions}

FileNames == {"", "photo.jpg"}
MimeTypes == {"", "image/jpeg"}

----------------------------------------------------------------------------
(* The state machine *)

NoArgs == [none |-> TRUE]
\* no call: the frame of a caller that is not in a call
NoCall == [op |-> "none", args |-> NoArgs]

\* most concurrent callers of the one Client
MaxCallers == 2
Callers == 1..MaxCallers
IdleCall ==
    [pc |-> "idle", call |-> NoCall, requests |-> <<>>, exchange |-> NoExchange,
     result |-> NilSlice, err |-> NoErr]

\* no previous call that the remote answered
NoPrev == [op |-> "none", args |-> NoArgs, result |-> NilSlice, err |-> NoErr]

\* the markdown of the blocks of the initial document
InitialContent == ("1" :> "alpha") @@ ("2" :> "beta")

\* most requests the demo server handles at a time
MaxHandlers == 2
Handlers == 1..MaxHandlers
\* pc: "idle" (no request yet), "decoded" (before the root fetch), "fetched"
\* (before the insert), "done" (the handler has returned or panicked)
IdleHandler ==
    [pc |-> "idle", method |-> "", input |-> [undecodable |-> TRUE, query |-> ""],
     query |-> "", root |-> "", log |-> <<>>, responses |-> <<>>, panicked |-> FALSE]

Init ==
    /\ client \in {[BaseURL |-> b, HTTPClient |-> "http.Client"] : b \in BaseURLs}
    /\ doc = InitialDoc
    /\ pc = "idle"
    /\ op = "none"
    /\ args = NoArgs
    /\ requests = <<>>
    /\ exchange = NoExchange
    /\ steps = <<>>
    /\ docBefore = <<>>
    /\ result = NilSlice
    /\ err = NoErr
    /\ calls = [i \in Callers |-> IdleCall]
    /\ content = InitialContent
    /\ minted = 0
    /\ prev = NoPrev
    /\ handlers = [h \in Handlers |-> IdleHandler]

\* the call returns without a request having been sent
FailedConstruction(name, a, zero, msg) ==
    /\ pc' = "returned"
    /\ op' = name
    /\ args' = a
    /\ requests' = <<>>
    /\ exchange' = NoExchange
    /\ steps' = <<"construct">>
    /\ docBefore' = doc
    /\ result' = zero
    /\ err' = Errorf(msg)
    /\ UNCHANGED <<client, doc, calls, content, minted, prev, handlers>>

\* the call returns after the round trip t
Completed(name, a, req, t, out) ==
    /\ pc' = "returned"
    /\ op' = name
    /\ args' = a
    /\ requests' = Sent(req, t)
    /\ exchange' = [t EXCEPT !.doc = <<>>]
    /\ steps' = <<"construct">> \o out.steps
    /\ docBefore' = doc
    /\ result' = out.result
    /\ err' = out.err
    /\ doc' = t.doc
    /\ UNCHANGED <<client, calls, content, minted, prev, handlers>>

FetchBlocks(id, maxDepth, fetchMetadata) ==
    /\ pc = "idle"
    /\ LET a == [id |-> id, maxDepth |-> maxDepth, fetchMetadata |-> fetchMetadata]
           b == FetchBlocksRequest(client, id, maxDepth, fetchMetadata)
       IN  IF ~b.ok THEN FailedConstruction("FetchBlocks", a, NilPtr, b.msg)
           ELSE \E t \in RoundTrips(b.req, doc) :
                    Completed("FetchBlocks", a, b.req, t, FetchBlocksResponse(t))

FetchBlocksMarkdown(id, maxDepth) ==
    /\ pc = "idle"
    /\ LET a == [id |-> id, maxDepth |-> maxDepth]
           b == FetchBlocksMarkdownRequest(client, id, maxDepth)
       IN  IF ~b.ok THEN FailedConstruction("FetchBlocksMarkdown", a, "", b.msg)
           ELSE \E t \in RoundTrips(b.req, doc) :
                    Completed("FetchBlocksMarkdown", a, b.req, t, FetchBlocksMarkdownResponse(t))

InsertBlocks(req) ==
    /\ pc = "idle"
    /\ LET a == [req |-> req]
           b == InsertBlocksRequest(client, req)
       IN  IF ~b.ok THEN FailedConstruction("InsertBlocks", a, NilSlice, b.msg)
           ELSE \E t \in RoundTrips(b.req, doc) :
                    Completed("InsertBlocks", a, b.req, t, InsertBlocksResponse(t))

UpdateBlocks(req) ==
    /\ pc = "idle"
    /\ LET a == [req |-> req]
           b == UpdateBlocksRequest(client, req)
       IN  IF ~b.ok THEN FailedConstruction("UpdateBlocks", a, NilSlice, b.msg)
           ELSE \E t \in RoundTrips(b.req, doc) :
                    Completed("UpdateBlocks", a, b.req, t, UpdateBlocksResponse(t))

DeleteBlocks(blockIDs) ==
    /\ pc = "idle"
    /\ LET a == [blockIDs |-> blockIDs]
           b == DeleteBlocksRequest(client, blockIDs)
       IN  IF ~b.ok THEN FailedConstruction("DeleteBlocks", a, NilSlice, b.msg)
           ELSE \E t \in RoundTrips(b.req, doc) :
                    Completed("DeleteBlocks", a, b.req, t, DeleteBlocksResponse(t))

MoveBlocks(req) ==
    /\ pc = "idle"
    /\ LET a == [req |-> req]
           b == MoveBlocksRequest(client, req)
       IN  IF ~b.ok THEN FailedConstruction("MoveBlocks", a, NilSlice, b.msg)
           ELSE \E t \in RoundTrips(b.req, doc) :
                    Completed("MoveBlocks", a, b.req, t, MoveBlocksResponse(t))

Search(pattern, caseSensitive, beforeCount, afterCount) ==
    /\ pc = "idle"
    /\ LET a == [pattern |-> pattern, caseSensitive |-> caseSensitive,
                 beforeCount |-> beforeCount, afterCount |-> afterCount]
           b == SearchRequest(client, pattern, caseSensitive, beforeCount, afterCount)
       IN  IF ~b.ok THEN FailedConstruction("Search", a, NilSlice, b.msg)
           ELSE \E t \in RoundTrips(b.req, doc) :
                    Completed("Search", a, b.req, t, SearchResponse(t))

GenerateUploadURL(fileName, mimeType) ==
    /\ pc = "idle"
    /\ LET a == [fileName |-> fileName, mimeType |-> mimeType]
           b == GenerateUploadURLRequest(client, fileName, mimeType)
       IN  IF ~b.ok THEN FailedConstruction("GenerateUploadURL", a, NilPtr, b.msg)
           ELSE \E t \in RoundTrips(b.req, doc) :
                    Completed("GenerateUploadURL", a, b.req, t, GenerateUploadURLResponse(t))

\* the caller is done with what the call returned; nothing of the call is kept
Return ==
    /\ pc = "returned"
    /\ pc' = "idle"
    /\ op' = "none"
    /\ args' = NoArgs
    /\ requests' = <<>>
    /\ exchange' = NoExchange
    /\ steps' = <<>>
    /\ docBefore' = <<>>
    /\ result' = NilSlice
    /\ err' = NoErr
    /\ UNCHANGED <<client, doc, calls, content, minted, prev, handlers>>

Next ==
    \/ \E id \in IdArgs, maxDepth \in DepthArgs, fetchMetadata \in BOOLEAN :
           FetchBlocks(id, maxDepth, fetchMetadata)
    \/ \E id \in IdArgs, maxDepth \in DepthArgs : FetchBlocksMarkdown(id, maxDepth)
    \/ \E req \in InsertRequests : InsertBlocks(req)
    \/ \E req \in UpdateRequests : UpdateBlocks(req)
    \/ \E blockIDs \in IDLists : DeleteBlocks(blockIDs)
    \/ \E req \in MoveRequests : MoveBlocks(req)
    \/ \E pattern \in Patterns, caseSensitive \in BOOLEAN, beforeCount \in CountArgs,
          afterCount \in CountArgs : Search(pattern, caseSensitive, beforeCount, afterCount)
    \/ \E fileName \in FileNames, mimeType \in MimeTypes : GenerateUploadURL(fileName, mimeType)
    \/ Return

Spec == Init /\ [][Next]_vars

----------------------------------------------------------------------------
(* Properties *)

BatchOps == {"DeleteBlocks", "MoveBlocks"}
EnvelopeOps == {"InsertBlocks", "UpdateBlocks", "DeleteBlocks", "MoveBlocks", "Search"}
AllOps == EnvelopeOps \cup {"FetchBlocks", "FetchBlocksMarkdown", "GenerateUploadURL"}

\* the statuses each method takes as success
AcceptedStatuses(o) == IF o \in BatchOps THEN {200, 207} ELSE {200}

\* the call has returned and a response had come back for it
Answered == pc = "returned" /\ exchange.origin \in {"remote", "other"}

\* the zero value of the method's result type
ZeroResult(o) ==
    CASE o \in {"FetchBlocks", "GenerateUploadURL"} -> NilPtr
      [] o = "FetchBlocksMarkdown" -> ""
      [] OTHER -> NilSlice

\* the body is {"items": [...]} and every item is an object with a string id
IsIDEnvelope(b) ==
    /\ b.syntax = "object" /\ ~b.trailing /\ b.itemsKind = "array"
    /\ \A i \in 1..Len(b.items) : b.items[i].kind = "object" /\ b.items[i].idKind = "string"

ItemIDs(b) == [i \in 1..Len(b.items) |-> b.items[i].id]

\* C1: DeleteBlocks and MoveBlocks treat 200 and 207 alike: whenever the
\* answer has one of the two statuses and its body is a well-formed
\* {"items": [...]} envelope, the call returns the ids of the items and a nil
\* error, also when items is empty.
C1_MultiStatusIsSuccess ==
    (/\ Answered /\ op \in BatchOps
     /\ exchange.resp.status \in {200, 207}
     /\ IsIDEnvelope(exchange.resp.body))
    => (err = NoErr /\ result = Slice(ItemIDs(exchange.resp.body)))

\* DeleteBlocks(["9"]) for a block that does not exist: the remote answers 207
\* with no items, the call returns an empty list and no error
C1_Witness ==
    /\ Answered /\ op = "DeleteBlocks" /\ args.blockIDs = <<"9">>
    /\ exchange.origin = "remote"
    /\ exchange.resp.status = 207 /\ exchange.resp.body = Envelope(<<>>)
    /\ result = Slice(<<>>) /\ err = NoErr

\* C2: a response whose status is outside the method's accepted set makes
\* the call fail with an "unexpected status" error carrying the status code
\* and the body text; the body is not decoded and no result is returned.
C2_UnexpectedStatus ==
    (/\ Answered /\ op \in AllOps
     /\ exchange.resp.status \notin AcceptedStatuses(op))
    => (/\ err = [msg |-> "unexpected status", code |-> exchange.resp.status,
                  text |-> RawText(exchange.resp.body)]
        /\ result = ZeroResult(op)
        /\ "decode" \notin Range(steps))

\* InsertBlocks answered by 207 with a well-formed envelope fails
C2_Witness ==
    /\ Answered /\ op = "InsertBlocks"
    /\ exchange.resp.status = 207 /\ exchange.resp.body = Envelope(<<ElemObj("1")>>)
    /\ err.msg = "unexpected status" /\ err.code = 207
    /\ err.text = "{\"items\":[{\"id\":\"1\"}]}"

\* building the request of the call succeeds: the base URL parses and the
\* request body can be encoded
ConstructionSucceeds ==
    /\ client.BaseURL # BadBaseURL
    /\ op \in {"InsertBlocks", "UpdateBlocks"} =>
          \A i \in 1..Len(args.req.blocks) : args.req.blocks[i].Width # "chan"

\* C3: a call sends at most one HTTP request, and exactly one when the
\* request could be built; no failure makes it send a second one.
C3_OneRequest ==
    pc = "returned" =>
        /\ Len(requests) <= 1
        /\ Len(requests) = 1 <=> ConstructionSucceeds

\* calls that failed after their request was sent, of each kind of failure
C3_Witness ==
    /\ pc = "returned" /\ op = "Search" /\ Len(requests) = 1
    /\ exchange.resp.status = 500 /\ err.msg = "unexpected status"

\* the four kinds of error, by message
ErrorKind(e) ==
    CASE e.msg \in {"creating request", "marshaling request"} -> "construction"
      [] e.msg = "executing request" -> "transport"
      [] e.msg = "unexpected status" -> "status"
      [] e.msg \in {"decoding response", "reading response", "unmarshaling blocks",
                    "unmarshaling deleted IDs", "unmarshaling moved IDs",
                    "unmarshaling search results"} -> "decode"
      [] OTHER -> "none"

StepOrder == <<"construct", "send", "status", "decode">>
StepOfKind(k) ==
    CASE k = "construction" -> 1 [] k = "transport" -> 2 [] k = "status" -> 3 [] OTHER -> 4

\* the first step of the call that fails, "none" when no step up to the
\* status check fails
FirstFailure ==
    IF ~ConstructionSucceeds THEN "construction"
    ELSE IF exchange.err THEN "transport"
    ELSE IF exchange.resp.status \notin AcceptedStatuses(op) THEN "status"
    ELSE "none"

\* C4: a failed call reports one of the four kinds of error, the kind of the
\* first step that failed in the order construct, send, check status, decode,
\* and no step after the failing one is executed.
C4_FirstErrorWins ==
    (pc = "returned" /\ op \in AllOps) =>
        /\ err # NoErr =>
              /\ ErrorKind(err) \in {"construction", "transport", "status", "decode"}
              /\ steps = SubSeq(StepOrder, 1, StepOfKind(ErrorKind(err)))
              /\ FirstFailure \in {ErrorKind(err), "none"}
              /\ ErrorKind(err) = "decode" => FirstFailure = "none"
        /\ FirstFailure # "none" => ErrorKind(err) = FirstFailure
        /\ ErrorKind(err) = "construction" => requests = <<>>
        /\ err = NoErr => steps = StepOrder

\* a 500 answer whose body is no JSON is reported as a status error, not as
\* a decode error
C4_Witness ==
    /\ Answered /\ op = "UpdateBlocks"
    /\ exchange.resp.status = 500 /\ exchange.resp.body = TextBody("Bad Gateway")
    /\ ErrorKind(err) = "status" /\ steps = <<"construct", "send", "status">>

\* the body does not have the shape method o expects: it is no JSON object,
\* or "items" is missing, null, no array, or an array with an element that
\* is not of the element type
ShapeMismatch(b, o) ==
    \/ b.syntax # "object"
    \/ b.itemsKind \in {"absent", "null", "nonarray"}
    \/ \E i \in 1..Len(b.items) :
          b.items[i].kind = "number" \/ (o # "Search" /\ b.items[i].idKind = "number")

\* C5: for InsertBlocks, UpdateBlocks, DeleteBlocks, MoveBlocks and Search,
\* a success-status answer whose body does not match the expected shape (no
\* valid JSON, no "items", "items" null, "items" no array of the element
\* type) makes the call return a decode error, never a successful empty result.
C5_MismatchIsDecodeError ==
    (/\ Answered /\ op \in EnvelopeOps
     /\ exchange.resp.status \in AcceptedStatuses(op)
     /\ ~exchange.resp.body.trailing
     /\ ShapeMismatch(exchange.resp.body, op))
    => ErrorKind(err) = "decode"

HasParam(q, k) == \E i \in 1..Len(q) : q[i][1] = k
ParamValue(q, k) == q[CHOOSE i \in 1..Len(q) : q[i][1] = k][2]

\* the id and maxDepth parameters of a fetch request follow the omission rules
FetchQueryRules(q) ==
    /\ HasParam(q, "id") <=> args.id # ""
    /\ HasParam(q, "maxDepth") <=> args.maxDepth # -1
    /\ HasParam(q, "maxDepth") => ParamValue(q, "maxDepth") = ToString(args.maxDepth)

\* C6: FetchBlocks sends GET <base>/blocks; the query has id iff id is not
\* empty, maxDepth iff maxDepth is not -1 (0 and the other negative values
\* are transmitted), fetchMetadata=true iff fetchMetadata; with all three
\* left out the URL has no query string.
C6_FetchQuery ==
    (pc = "returned" /\ op = "FetchBlocks" /\ requests # <<>>) =>
        LET r == requests[1]
            q == r.url.query
        IN  /\ r.method = "GET" /\ r.url.base = client.BaseURL /\ r.url.path = "/blocks"
            /\ FetchQueryRules(q)
            /\ HasParam(q, "fetchMetadata") <=> args.fetchMetadata
            /\ HasParam(q, "fetchMetadata") => ParamValue(q, "fetchMetadata") = "true"
            /\ \A i \in 1..Len(q) : q[i][1] \in {"id", "maxDepth", "fetchMetadata"}
            /\ r.url.mark = (IF q = <<>> THEN "" ELSE "?")
            /\ (args.id = "" /\ args.maxDepth = -1 /\ ~args.fetchMetadata)
                  => URLString(r.url) = client.BaseURL \o "/blocks"

\* FetchBlocks("", -2, false) transmits maxDepth=-2
C6_Witness ==
    /\ pc = "returned" /\ op = "FetchBlocks" /\ requests # <<>>
    /\ args.id = "" /\ args.maxDepth = -2 /\ ~args.fetchMetadata
    /\ URLString(requests[1].url) = GoodBaseURL \o "/blocks?maxDepth=-2"

\* C7: Search sends GET <base>/blocks/search; the query always has pattern
\* (also when it is empty), caseSensitive=true iff caseSensitive,
\* beforeBlockCount iff beforeCount > 0 and afterBlockCount iff afterCount > 0.
C7_SearchQuery ==
    (pc = "returned" /\ op = "Search" /\ requests # <<>>) =>
        LET r == requests[1]
            q == r.url.query
        IN  /\ r.method = "GET" /\ r.url.base = client.BaseURL /\ r.url.path = "/blocks/search"
            /\ r.url.mark = "?"
            /\ HasParam(q, "pattern") /\ ParamValue(q, "pattern") = QueryEscape(args.pattern)
            /\ HasParam(q, "caseSensitive") <=> args.caseSensitive
            /\ HasParam(q, "caseSensitive") => ParamValue(q, "caseSensitive") = "true"
            /\ HasParam(q, "beforeBlockCount") <=> args.beforeCount > 0
            /\ HasParam(q, "beforeBlockCount")
                  => ParamValue(q, "beforeBlockCount") = ToString(args.beforeCount)
            /\ HasParam(q, "afterBlockCount") <=> args.afterCount > 0
            /\ HasParam(q, "afterBlockCount")
                  => ParamValue(q, "afterBlockCount") = ToString(args.afterCount)

\* Search("", false, 0, 1): the empty pattern is sent, the count 0 is not
C7_Witness ==
    /\ pc = "returned" /\ op = "Search" /\ requests # <<>>
    /\ args.pattern = "" /\ ~args.caseSensitive /\ args.beforeCount = 0 /\ args.afterCount = 1
    /\ URLString(requests[1].url) = GoodBaseURL \o "/blocks/search?afterBlockCount=1&pattern="

\* the request of FetchBlocksMarkdown
MarkdownRequestRules ==
    LET r == requests[1]
        q == r.url.query
    IN  /\ r.method = "GET" /\ r.url.base = client.BaseURL /\ r.url.path = "/blocks"
        /\ r.header.Accept = "text/markdown"
        /\ FetchQueryRules(q)
        /\ ~HasParam(q, "fetchMetadata")
        /\ r.url.mark = (IF q = <<>> THEN "" ELSE "?")

\* C8 as stated: FetchBlocksMarkdown sends GET <base>/blocks with Accept:
\* text/markdown and the id/maxDepth rules of FetchBlocks, no fetchMetadata,
\* and on status 200 returns exactly the body text, for every body.
C8_Original ==
    (pc = "returned" /\ op = "FetchBlocksMarkdown" /\ requests # <<>>) =>
        /\ MarkdownRequestRules
        /\ (Answered /\ exchange.resp.status = 200)
              => (err = NoErr /\ result = RawText(exchange.resp.body))

\* C8 as amended: the same request; on status 200 the body text is returned
\* unchanged when the body was read to its end, and when reading the body
\* fails the call returns "" and a "reading response" error.
C8_MarkdownVerbatim ==
    (pc = "returned" /\ op = "FetchBlocksMarkdown" /\ requests # <<>>) =>
        /\ MarkdownRequestRules
        /\ (Answered /\ exchange.resp.status = 200 /\ ~exchange.resp.readErr)
              => (err = NoErr /\ result = RawText(exchange.resp.body))
        /\ (Answered /\ exchange.resp.status = 200 /\ exchange.resp.readErr)
              => (err = Errorf("reading response") /\ result = "")

\* a 200 answer with an empty body gives "" and no error
C8_Witness ==
    /\ Answered /\ op = "FetchBlocksMarkdown"
    /\ exchange.resp = Response(200, EmptyBody, FALSE)
    /\ requests[1].header.Accept = "text/markdown"
    /\ result = "" /\ err = NoErr

\* C9: on success DeleteBlocks and MoveBlocks return as many identifiers as
\* the answer has items, the i-th being the id of the i-th item: the order of
\* the answer is kept, nothing is reordered, deduplicated or filtered.
C9_ServerOrderKept ==
    (Answered /\ op \in BatchOps /\ err = NoErr) =>
        LET items == exchange.resp.body.items
        IN  /\ Len(result.elems) = Len(items)
            /\ \A i \in 1..Len(items) : result.elems[i] = items[i].id

\* DeleteBlocks(["1","2"]) answered with the items 2, 1 returns 2, 1
C9_Witness ==
    /\ Answered /\ op = "DeleteBlocks" /\ args.blockIDs = <<"1", "2">>
    /\ exchange.resp.body.items = <<ElemObj("2"), ElemObj("1")>>
    /\ result = Slice(<<"2", "1">>) /\ err = NoErr

RequestedIDs == IF op = "DeleteBlocks" THEN args.blockIDs ELSE args.req.blockIds

\* the requested identifiers that are valid: they were in the document
ValidRequested == Range(RequestedIDs) \cap Range(docBefore)

\* the request names identifiers that are valid and identifiers that are not
MixedRequest == ValidRequested # {} /\ Range(RequestedIDs) \ Range(docBefore) # {}

\* C10 as stated: for a call with a mix of valid and invalid identifiers,
\* the identifiers DeleteBlocks and MoveBlocks return are a subset of the
\* valid identifiers that were requested.
C10_Original ==
    (Answered /\ op \in BatchOps /\ MixedRequest /\ err = NoErr) =>
        Range(result.elems) \subseteq ValidRequested

\* C10 as amended: the same, when the answer is the remote's documented one
\* (the ids it deleted or moved); the client returns the ids of any answer
\* as they are.
C10_SubsetOfRequested ==
    (Answered /\ op \in BatchOps /\ MixedRequest /\ err = NoErr /\ exchange.origin = "remote") =>
        Range(result.elems) \subseteq ValidRequested

\* DeleteBlocks(["1","9"]) with 1 valid and 9 not: 207 and the list 1
C10_Witness ==
    /\ Answered /\ op = "DeleteBlocks" /\ args.blockIDs = <<"1", "9">>
    /\ docBefore = <<"1", "2">> /\ exchange.origin = "remote"
    /\ exchange.resp.status = 207
    /\ result = Slice(<<"1">>) /\ err = NoErr /\ doc = <<"2">>

----------------------------------------------------------------------------
(* Request bodies: what the client checks before it sends *)

\* the request body of the call that returned
SentBody == requests[1].body

InsertSent == pc = "returned" /\ op = "InsertBlocks" /\ requests # <<>>
UpdateSent == pc = "returned" /\ op = "UpdateBlocks" /\ requests # <<>>

\* C11 as stated: every POST /blocks body carries position and never both a
\* blocks member and a markdown member.
C11_Original ==
    InsertSent =>
        /\ "position" \in SentBody.members
        /\ ~({"blocks", "markdown"} \subseteq SentBody.members)

\* C11: every POST /blocks body carries position; it carries blocks exactly
\* when the caller's block list is non-empty and markdown exactly when the
\* caller's markdown is non-empty, each with the caller's value, so a request
\* with both set is sent with both.
C11_ContentAsGiven ==
    InsertSent =>
        /\ "position" \in SentBody.members
        /\ "blocks" \in SentBody.members <=> Len(args.req.blocks) > 0
        /\ "markdown" \in SentBody.members <=> args.req.markdown # ""
        /\ SentBody.markdown = args.req.markdown
        /\ Len(SentBody.blocks) = Len(args.req.blocks)
        /\ \A i \in 1..Len(args.req.blocks) :
              SentBody.blocks[i].Markdown = args.req.blocks[i].Markdown

\* an insert sent with a block list and a markdown string together
C11_Witness ==
    /\ InsertSent
    /\ Len(args.req.blocks) = 1 /\ args.req.markdown = "Hello"
    /\ SentBody.members = {"position", "blocks", "markdown"}

\* C12 as stated: every block of a PUT /blocks body carries its id.
C12_Original ==
    UpdateSent =>
        \A i \in 1..Len(SentBody.blocks) :
            "id" \in SentBody.blocks[i].members /\ SentBody.blocks[i].ID # ""

\* C12: a PUT /blocks body holds the caller's blocks in the caller's order;
\* a block carries an id member exactly when the caller gave it a non-empty
\* ID, and then that ID; a block without ID is sent without id.
C12_IDAsGiven ==
    UpdateSent =>
        /\ SentBody.members = {"blocks"}
        /\ Len(SentBody.blocks) = Len(args.req.blocks)
        /\ \A i \in 1..Len(args.req.blocks) :
              /\ "id" \in SentBody.blocks[i].members <=> args.req.blocks[i].ID # ""
              /\ SentBody.blocks[i].ID = args.req.blocks[i].ID

\* an update sent with two blocks, the second without an identifier
C12_Witness ==
    /\ UpdateSent
    /\ Len(args.req.blocks) = 2
    /\ args.req.blocks[1].ID = "1" /\ args.req.blocks[2].ID = ""
    /\ "id" \in SentBody.blocks[1].members
    /\ "id" \notin SentBody.blocks[2].members

\* C13: InsertBlocks and MoveBlocks do not validate the Position: whatever
\* its identifiers, the only local errors are an unparsable URL and an
\* unencodable block, and the body sent carries position always and pageId
\* and siblingId exactly when they are non-empty, with the caller's values.
C13_PositionNotValidated ==
    (pc = "returned" /\ op \in {"InsertBlocks", "MoveBlocks"}) =>
        /\ ErrorKind(err) = "construction" <=> ~ConstructionSucceeds
        /\ Len(requests) = 1 <=> ConstructionSucceeds
        /\ requests # <<>> =>
              LET p == args.req.position
                  q == SentBody.position
              IN  /\ "position" \in SentBody.members
                  /\ "position" \in q.members /\ q.Position = p.Position
                  /\ "pageId" \in q.members <=> p.PageID # ""
                  /\ "siblingId" \in q.members <=> p.SiblingID # ""
                  /\ q.PageID = p.PageID /\ q.SiblingID = p.SiblingID

\* a move sent with both identifiers set
C13_Witness ==
    /\ pc = "returned" /\ op = "MoveBlocks" /\ requests # <<>>
    /\ args.req.position = Pos("end", RootID, "1")
    /\ SentBody.position.members = {"position", "pageId", "siblingId"}
    /\ err = NoErr

----------------------------------------------------------------------------
(* Any method, by name: the request it builds and what it returns *)

Call(name, a) == [op |-> name, args |-> a]

BuildRequest(c, call) ==
    LET a == call.args
    IN  CASE call.op = "FetchBlocks" -> FetchBlocksRequest(c, a.id, a.maxDepth, a.fetchMetadata)
          [] call.op = "FetchBlocksMarkdown" -> FetchBlocksMarkdownRequest(c, a.id, a.maxDepth)
          [] call.op = "InsertBlocks" -> InsertBlocksRequest(c, a.req)
          [] call.op = "UpdateBlocks" -> UpdateBlocksRequest(c, a.req)
          [] call.op = "DeleteBlocks" -> DeleteBlocksRequest(c, a.blockIDs)
          [] call.op = "MoveBlocks" -> MoveBlocksRequest(c, a.req)
          [] call.op = "Search" ->
                SearchRequest(c, a.pattern, a.caseSensitive, a.beforeCount, a.afterCount)
          [] call.op = "GenerateUploadURL" -> GenerateUploadURLRequest(c, a.fileName, a.mimeType)

HandleResponse(name, t) ==
    CASE name = "FetchBlocks" -> FetchBlocksResponse(t)
      [] name = "FetchBlocksMarkdown" -> FetchBlocksMarkdownResponse(t)
      [] name = "InsertBlocks" -> InsertBlocksResponse(t)
      [] name = "UpdateBlocks" -> UpdateBlocksResponse(t)
      [] name = "DeleteBlocks" -> DeleteBlocksResponse(t)
      [] name = "MoveBlocks" -> MoveBlocksResponse(t)
      [] name = "Search" -> SearchResponse(t)
      [] name = "GenerateUploadURL" -> GenerateUploadURLResponse(t)

----------------------------------------------------------------------------
(* Concurrent calls on one Client.  A call is two steps here: BeginCall     *)
(* builds the request and hands it to HTTPClient.Do, EndCall takes what Do  *)
(* gave back and computes what the method returns; the steps of the callers *)
(* interleave.                                                             *)

ConcurrentCalls ==
    {Call("FetchBlocks", [id |-> "1", maxDepth |-> 0, fetchMetadata |-> FALSE]),
     Call("InsertBlocks", [req |-> [kind |-> "InsertRequest", blocks |-> <<>>,
                                    markdown |-> "Hello", position |-> Pos("end", RootID, "")]]),
     Call("InsertBlocks", [req |-> [kind |-> "InsertRequest",
                                    blocks |-> <<ReqBlock("", "hi", "chan")>>,
                                    markdown |-> "", position |-> Pos("end", RootID, "")]]),
     Call("DeleteBlocks", [blockIDs |-> <<"1">>]),
     Call("DeleteBlocks", [blockIDs |-> <<"2", "9">>]),
     Call("MoveBlocks", [req |-> [kind |-> "MoveRequest", blockIds |-> <<"2">>,
                                  position |-> Pos("start", RootID, "")]]),
     Call("Search", [pattern |-> "a.*", caseSensitive |-> FALSE,
                     beforeCount |-> 1, afterCount |-> 0])}

\* the answers that are not the remote's, for the concurrent calls
ConcurrentResponses ==
    {Response(StatusOK, BlockBody("1"), FALSE),
     Response(StatusOK, Envelope(<<ElemObj("1")>>), FALSE),
     Response(500, TextBody("Bad Gateway"), FALSE)}

ConcurrentRoundTrips(req, d) == RoundTripsWith(req, d, ConcurrentResponses)

\* mutant: resp and err are variables the callers share, so a call can pick
\* up what Do gave back to another call that is still in progress
MutResponseShared(i) ==
    IF \E j \in Callers : j # i /\ calls[j].pc = "sent"
    THEN calls[CHOOSE j \in Callers : j # i /\ calls[j].pc = "sent"].exchange
    ELSE calls[i].exchange
\* resp, err := c.HTTPClient.Do(req): local variables of the call
ResponseOf(i) == calls[i].exchange

BeginCall(i, call) ==
    /\ calls[i].pc = "idle"
    /\ LET b == BuildRequest(client, call)
       IN  IF ~b.ok
           THEN /\ calls' = [calls EXCEPT ![i] =
                                [IdleCall EXCEPT !.pc = "returned", !.call = call,
                                                 !.result = ZeroResult(call.op),
                                                 !.err = Errorf(b.msg)]]
                /\ doc' = doc
           ELSE \E t \in ConcurrentRoundTrips(b.req, doc) :
                    /\ calls' = [calls EXCEPT ![i] =
                                    [IdleCall EXCEPT !.pc = "sent", !.call = call,
                                                     !.requests = Sent(b.req, t),
                                                     !.exchange = [t EXCEPT !.doc = <<>>]]]
                    /\ doc' = t.doc
    /\ UNCHANGED <<client, frame, content, minted, prev, handlers>>

EndCall(i) ==
    /\ calls[i].pc = "sent"
    /\ LET out == HandleResponse(calls[i].call.op, ResponseOf(i))
       IN  calls' = [calls EXCEPT ![i].pc = "returned", ![i].result = out.result,
                                  ![i].err = out.err]
    /\ UNCHANGED <<client, frame, remote, prev, handlers>>

\* the caller drops what the call returned
ReturnCall(i) ==
    /\ calls[i].pc = "returned"
    /\ calls' = [calls EXCEPT ![i] = IdleCall]
    /\ UNCHANGED <<client, frame, remote, prev, handlers>>

NextConcurrent ==
    \E i \in Callers :
        \/ \E call \in ConcurrentCalls : BeginCall(i, call)
        \/ EndCall(i)
        \/ ReturnCall(i)

SpecConcurrent == Init /\ [][NextConcurrent]_vars

\* the request of caller i is the one its own arguments give, and what it
\* returned is what the answer to its own request gives
OwnOutcome(i) ==
    LET f == calls[i]
        b == BuildRequest(client, f.call)
    IN  /\ f.pc = "sent" => b.ok /\ f.requests = <<b.req>>
        /\ f.pc = "returned" =>
              IF ~b.ok
              THEN f.requests = <<>> /\ f.result = ZeroResult(f.call.op)
                   /\ f.err = Errorf(b.msg)
              ELSE LET out == HandleResponse(f.call.op, f.exchange)
                   IN  f.requests = <<b.req>> /\ f.result = out.result /\ f.err = out.err

\* C14: no step of a call writes the Client, and under every interleaving
\* of the callers each call's request is determined by its own arguments
\* and its result by the response to its own request.
C14_NoSharedState ==
    /\ [][client' = client]_vars
    /\ [](\A i \in Callers : OwnOutcome(i))

\* caller 1 has returned from a fetch that began while the delete of
\* caller 2, still in progress, was already sent
C14_Witness ==
    /\ calls[1].pc = "returned" /\ calls[1].call.op = "FetchBlocks"
    /\ calls[1].err = NoErr /\ calls[1].result = Ptr(BlockOf(BlockBody("1")))
    /\ calls[2].pc = "sent" /\ calls[2].call.op = "DeleteBlocks"
    /\ calls[2].exchange.origin = "remote" /\ doc = <<"2">>

----------------------------------------------------------------------------
(* The demo server (main.go): handleCraftHackathon.  The handler of a       *)
(* request runs in its own goroutine; its steps are the stretches between   *)
(* its two remote calls, and the steps of the handlers interleave.          *)

NewClient(baseURL) == [BaseURL |-> baseURL, HTTPClient |-> "http.Client"]

\* r.Body: its JSON syntax and its "query" member
HTTPBody(syntax, queryKind, query) == [syntax |-> syntax, queryKind |-> queryKind, query |-> query]
Queries == {"", "Hello", "Hi"}
HTTPBodies ==
    {HTTPBody("object", "string", q) : q \in Queries}
    \cup {HTTPBody("object", "absent", ""), HTTPBody("object", "number", ""),
          HTTPBody("null", "absent", ""), HTTPBody("text", "absent", ""),
          HTTPBody("empty", "absent", "")}
Methods == {"POST", "GET"}

\* the body is no JSON, or JSON that is no object with a string as "query"
Undecodable(body) == body.syntax \notin {"object", "null"} \/ body.queryKind = "number"
\* what a POST request came with: whether its body is decodable, and its
\* query (the body of a request that is no POST is not read)
InputOf(body) == [undecodable |-> Undecodable(body), query |-> body.query]

\* json.NewDecoder(r.Body).Decode(&req) into QueryRequest
DecodeQueryRequest(body) ==
    CASE body.syntax = "object" /\ body.queryKind # "number" -> [ok |-> TRUE, Query |-> body.query]
      [] body.syntax = "null" -> [ok |-> TRUE, Query |-> ""]
      [] OTHER -> [ok |-> FALSE, Query |-> ""]

NoQueryResponse == [Status |-> "", Query |-> ""]
\* http.Error(w, msg, code)
HTTPError(msg, code) ==
    [status |-> code, contentType |-> "text/plain; charset=utf-8", text |-> msg,
     json |-> NoQueryResponse]
\* mutant: the response is built from a variable the handlers share, which
\* holds the query of the first request
MutEchoShared(v) ==
    [status |-> StatusOK, contentType |-> "application/json", text |-> "",
     json |-> [v EXCEPT !.Query = handlers[1].query]]
\* w.Header().Set, w.WriteHeader(http.StatusOK), json.NewEncoder(w).Encode(response)
HTTPJSON(v) == [status |-> StatusOK, contentType |-> "application/json", text |-> "", json |-> v]

\* a remote call of a handler with its outcome; applied: the ids of the
\* blocks the remote inserted when it served the request
Logged(call, req, t, out, d) ==
    [call |-> call, req |-> req, result |-> out.result, err |-> out.err,
     origin |-> t.origin, transport |-> t.err, applied |-> Range(t.doc) \ Range(d)]

\* mutant: the insert goes to page "0" whatever the root fetch returned
MutInsertAtPageZero(query, root) ==
    [kind |-> "InsertRequest", blocks |-> <<>>, markdown |-> query,
     position |-> Pos("end", RootID, "")]
\* insertReq := client.InsertRequest{Markdown: req.Query, Position: {"end", root.ID}}
QueryInsertRequest(query, root) ==
    [kind |-> "InsertRequest", blocks |-> <<>>, markdown |-> query,
     position |-> Pos("end", root.ID, "")]

RootFetch == Call("FetchBlocks", [id |-> "", maxDepth |-> 0, fetchMetadata |-> FALSE])

\* the method test and the decoding of the body
Receive(h, method, body) ==
    /\ handlers[h].pc = "idle"
    /\ LET d == DecodeQueryRequest(body)
           f == [handlers[h] EXCEPT !.method = method, !.input = InputOf(body)]
       IN  handlers' = [handlers EXCEPT ![h] =
             IF method # "POST"
             THEN [handlers[h] EXCEPT !.pc = "done", !.method = method,
                                      !.responses = <<HTTPError("Method not allowed", 405)>>]
             ELSE IF ~d.ok
             THEN [f EXCEPT !.pc = "done", !.responses = <<HTTPError("Invalid JSON", 400)>>]
             ELSE [f EXCEPT !.pc = "decoded", !.query = d.Query]]
    /\ UNCHANGED <<client, frame, remote, calls, prev>>

\* c := client.NewClient(BaseURL); root, err := c.FetchBlocks("", 0, false)
FetchRoot(h) ==
    /\ handlers[h].pc = "decoded"
    /\ LET b == BuildRequest(NewClient(GoodBaseURL), RootFetch)
           after(t) ==
             LET out == FetchBlocksResponse(t)
                 f == [handlers[h] EXCEPT !.log = @ \o <<Logged(RootFetch, b.req, t, out, doc)>>]
             IN  [handler |-> IF out.err # NoErr
                              THEN [f EXCEPT !.pc = "done",
                                             !.responses = <<HTTPError("Failed to fetch document: "
                                                                       \o out.err.msg, 500)>>]
                              ELSE [f EXCEPT !.pc = "fetched", !.root = out.result.val.ID],
                  doc |-> t.doc, content |-> t.content, minted |-> t.minted]
       IN  \E s \in {after(t) : t \in Exchanges(b.req, Remote(doc, content, minted))} :
             /\ handlers' = [handlers EXCEPT ![h] = s.handler]
             /\ doc' = s.doc /\ content' = s.content /\ minted' = s.minted
    /\ UNCHANGED <<client, frame, calls, prev>>

\* insertedBlocks, err := c.InsertBlocks(insertReq); blockID := insertedBlocks[0].ID
\* panics when the list is empty: the server recovers and writes no response
InsertQuery(h) ==
    /\ handlers[h].pc = "fetched"
    /\ LET call == Call("InsertBlocks",
                        [req |-> QueryInsertRequest(handlers[h].query, [ID |-> handlers[h].root])])
           b == BuildRequest(NewClient(GoodBaseURL), call)
           after(t) ==
             LET out == InsertBlocksResponse(t)
                 f == [handlers[h] EXCEPT !.pc = "done",
                                          !.log = @ \o <<Logged(call, b.req, t, out, doc)>>]
             IN  [handler |-> IF out.err # NoErr
                              THEN [f EXCEPT !.responses = <<HTTPError("Failed to add content: "
                                                                       \o out.err.msg, 500)>>]
                              ELSE IF Len(out.result.elems) = 0
                              THEN [f EXCEPT !.panicked = TRUE]
                              ELSE [f EXCEPT !.responses =
                                       <<HTTPJSON([Status |-> "created",
                                                   Query |-> handlers[h].query])>>],
                  doc |-> t.doc, content |-> t.content, minted |-> t.minted]
       IN  \E s \in {after(t) : t \in Exchanges(b.req, Remote(doc, content, minted))} :
             /\ handlers' = [handlers EXCEPT ![h] = s.handler]
             /\ doc' = s.doc /\ content' = s.content /\ minted' = s.minted
    /\ UNCHANGED <<client, frame, calls, prev>>

NextDemo ==
    \E h \in Handlers :
        \/ \E method \in Methods, body \in HTTPBodies : Receive(h, method, body)
        \/ FetchRoot(h)
        \/ InsertQuery(h)

\* the handlers make their clients with the constant BaseURL
InitDemo == Init /\ client = NewClient(GoodBaseURL)

SpecDemo == InitDemo /\ [][NextDemo]_vars

----------------------------------------------------------------------------
(* The demo server: its responses and its remote calls *)

\* the handler of request h has returned or panicked
Done(h) == handlers[h].pc = "done"
\* the error answers and the created answer, by their status and form
IsPlainError(r, code) == r.status = code /\ r.contentType = "text/plain; charset=utf-8"
IsCreated(r, q) ==
    /\ r.status = StatusOK /\ r.contentType = "application/json"
    /\ r.json = [Status |-> "created", Query |-> q]
\* a remote call of the handler failed
CallFailed(f) == \E i \in 1..Len(f.log) : f.log[i].err # NoErr
\* the ids of the blocks the remote inserted for the calls of the handler
AppliedFor(f) == UNION {f.log[i].applied : i \in 1..Len(f.log)}

\* C15: every request ends with exactly one response: 405 for a method other
\* than POST, 400 for a body that does not decode, 500 in plain text when the
\* root fetch or the insert failed, and 200 with {"status": "created",
\* "query": q} exactly when both succeeded.
C15_OneResponse ==
    \A h \in Handlers : Done(h) =>
        LET f == handlers[h]
        IN  /\ Len(f.responses) = 1
            /\ LET r == f.responses[1]
               IN  CASE f.method # "POST" -> IsPlainError(r, 405)
                     [] f.input.undecodable -> IsPlainError(r, 400)
                     [] CallFailed(f) -> IsPlainError(r, 500)
                     [] OTHER -> Len(f.log) = 2 /\ IsCreated(r, f.input.query)

\* C16: no remote call for a request that is not a POST or does not decode;
\* the first call is FetchBlocks("", 0, false); the insert comes second, only
\* after that fetch returned without error, at most once, and its body has
\* position "end" and the pageId of the block the fetch returned.
C16_CallsOrdered ==
    \A h \in Handlers :
        LET f == handlers[h]
        IN  /\ Len(f.log) <= 2
            /\ (f.pc # "idle" /\ (f.method # "POST" \/ f.input.undecodable)) => f.log = <<>>
            /\ Len(f.log) >= 1 =>
                  /\ f.log[1].call = RootFetch
                  /\ f.log[1].req.method = "GET" /\ f.log[1].req.url.path = "/blocks"
                  /\ f.log[1].req.url.query = <<<<"maxDepth", "0">>>>
            /\ Len(f.log) = 2 =>
                  /\ f.log[1].err = NoErr /\ ~f.log[1].result.isNil
                  /\ f.log[2].call.op = "InsertBlocks"
                  /\ f.log[2].req.method = "POST" /\ f.log[2].req.url.path = "/blocks"
                  /\ f.log[2].req.body.position.Position = "end"
                  /\ f.log[2].req.body.position.PageID = f.log[1].result.val.ID
                  /\ f.log[2].req.body.position.SiblingID = ""

\* a request whose fetch returned a root block with another id than "0",
\* and whose insert went to that page
C16_Witness ==
    \E h \in Handlers :
        /\ Done(h) /\ Len(handlers[h].log) = 2
        /\ handlers[h].log[1].result = Ptr(BlockOf(BlockDoc("9", "other", <<>>)))
        /\ handlers[h].log[2].req.body.position.PageID = "9"

\* C17 as stated: when the answer is an error status, the remote document
\* holds no block inserted for the request.
C17_Original ==
    \A h \in Handlers :
        (Done(h) /\ handlers[h].responses # <<>> /\ handlers[h].responses[1].status >= 400)
            => AppliedFor(handlers[h]) \cap Range(doc) = {}

\* C17: when the answer is an error status, the remote document holds no
\* block inserted for the request, unless the remote applied the insert and
\* its answer did not reach the handler (lost in transport, or another answer
\* came back); the handler then answers 500 and makes no further remote
\* call, so the block stays.
C17_NoRollback ==
    \A h \in Handlers :
        LET f == handlers[h]
        IN  (Done(h) /\ f.responses # <<>> /\ f.responses[1].status >= 400) =>
              \/ AppliedFor(f) = {}
              \/ /\ Len(f.log) = 2 /\ f.log[1].applied = {}
                 /\ f.log[2].transport \/ f.log[2].origin = "other"
                 /\ f.responses[1].status = 500
                 /\ AppliedFor(f) \subseteq Range(doc)

\* a request answered 500 whose insert the remote had applied: the answer
\* was lost, and the block is in the document
C17_Witness ==
    \E h \in Handlers :
        /\ Done(h) /\ handlers[h].responses # <<>>
        /\ handlers[h].responses[1].status = 500
        /\ Len(handlers[h].log) = 2 /\ handlers[h].log[2].transport
        /\ handlers[h].log[2].applied = {NewID(1)} /\ NewID(1) \in Range(doc)
        /\ content[NewID(1)] = handlers[h].query

----------------------------------------------------------------------------
(* A caller making one call after another on the document with content, as  *)
(* testInsertAndRollback does: insert, fetch what was inserted, delete it.   *)

InsertOf(blocks, markdown, position) ==
    [kind |-> "InsertRequest", blocks |-> blocks, markdown |-> markdown, position |-> position]

SessionCalls ==
    {Call("InsertBlocks", [req |-> r]) :
        r \in {InsertOf(<<>>, "Hello", Pos("end", RootID, "")),
               InsertOf(<<>>, "Hi", Pos("after", "", "1")),
               InsertOf(<<ReqBlock("", "hi", "nil")>>, "", Pos("start", RootID, "")),
               InsertOf(<<ReqBlock("", "a", "600"), ReqBlock("", "b", "nil")>>, "",
                        Pos("end", RootID, "")),
               InsertOf(<<ReqBlock("", "hi", "nil")>>, "Hello", Pos("end", RootID, "")),
               InsertOf(<<ReqBlock("", "hi", "nil")>>, "", Pos("after", "", "9"))}}
    \cup {Call("FetchBlocks", [id |-> i, maxDepth |-> m, fetchMetadata |-> FALSE]) :
             i \in {"", "1", "9"} \cup {NewID(k) : k \in 1..MaxNew}, m \in {0, -1}}
    \cup {Call("DeleteBlocks", [blockIDs |-> <<NewID(1)>>])}
    \cup {Call("Search", [pattern |-> "", caseSensitive |-> FALSE,
                          beforeCount |-> 0, afterCount |-> 0])}
    \cup {Call("Search", [pattern |-> "a.*", caseSensitive |-> FALSE,
                          beforeCount |-> n, afterCount |-> 0]) : n \in CountArgs}

\* one call of the session: the method builds its request, the round trip
\* takes place, the method returns
SessionCall(call) ==
    /\ pc = "idle"
    /\ pc' = "returned"
    /\ op' = call.op
    /\ args' = call.args
    /\ docBefore' = doc
    /\ LET b == BuildRequest(client, call)
       IN  IF ~b.ok
           THEN /\ requests' = <<>>
                /\ exchange' = NoExchange
                /\ steps' = <<"construct">>
                /\ result' = ZeroResult(call.op)
                /\ err' = Errorf(b.msg)
                /\ UNCHANGED remote
           ELSE \E t \in Exchanges(b.req, Remote(doc, content, minted)) :
                    LET out == HandleResponse(call.op, t)
                    IN  /\ requests' = Sent(b.req, t)
                        /\ exchange' = [err |-> t.err, resp |-> t.resp, doc |-> <<>>,
                                        origin |-> t.origin]
                        /\ steps' = <<"construct">> \o out.steps
                        /\ result' = out.result
                        /\ err' = out.err
                        /\ doc' = t.doc /\ content' = t.content /\ minted' = t.minted
    /\ UNCHANGED <<client, calls, prev, handlers>>

SessionInsertBlocks == \E c \in SessionCalls : c.op = "InsertBlocks" /\ SessionCall(c)
SessionFetchBlocks == \E c \in SessionCalls : c.op = "FetchBlocks" /\ SessionCall(c)
SessionDeleteBlocks == \E c \in SessionCalls : c.op = "DeleteBlocks" /\ SessionCall(c)
SessionSearch == \E c \in SessionCalls : c.op = "Search" /\ SessionCall(c)

\* the caller goes on to its next call; what the remote answered is what it
\* goes by
SessionReturn ==
    /\ pc = "returned"
    /\ prev' = IF exchange.origin = "remote"
               THEN [op |-> op, args |-> args, result |-> result, err |-> err]
               ELSE NoPrev
    /\ pc' = "idle"
    /\ op' = "none"
    /\ args' = NoArgs
    /\ requests' = <<>>
    /\ exchange' = NoExchange
    /\ steps' = <<>>
    /\ docBefore' = <<>>
    /\ result' = NilSlice
    /\ err' = NoErr
    /\ UNCHANGED <<client, remote, calls, handlers>>

NextSession ==
    \/ SessionInsertBlocks
    \/ SessionFetchBlocks
    \/ SessionDeleteBlocks
    \/ SessionSearch
    \/ SessionReturn

SpecSession == Init /\ [][NextSession]_vars

----------------------------------------------------------------------------
(* What the remote's answers promise, seen through the client *)

\* the call returned, and the answer it got was the remote's own
RemoteAnswered == pc = "returned" /\ ~exchange.err /\ exchange.origin = "remote"
BlockListForm(req) == Len(req.blocks) > 0 /\ req.markdown = ""
MarkdownForm(req) == Len(req.blocks) = 0 /\ req.markdown # ""

InsertedBefore ==
    /\ prev.op = "InsertBlocks" /\ prev.err = NoErr
    /\ MarkdownForm(prev.args.req) /\ Len(prev.result.elems) >= 1

FetchedBefore == op = "FetchBlocks" /\ prev.op = "FetchBlocks" /\ prev.args = args

----------------------------------------------------------------------------
(* The context blocks of a search match *)

\* the number of blocks before block x in document order
Preceding(x) == IndexOf(doc, x) - 1

\* a Search call that the remote answered and that returned without error
SearchAnswered == RemoteAnswered /\ op = "Search" /\ err = NoErr

\* match m has at most n context blocks before it, and fewer than n only
\* when fewer blocks precede it
ContextWithin(m, n) ==
    /\ Len(m.BeforeBlocks) <= n
    /\ Len(m.BeforeBlocks) < n => Len(m.BeforeBlocks) = Preceding(m.BlockID)

\* C21 as stated: for every beforeCount N the caller passes, every match of
\* a Search call that the remote answered has at most N blocks in
\* BeforeBlocks, and fewer than N only when fewer blocks precede the match.
C21_Original ==
    SearchAnswered => \A i \in 1..Len(result.elems) :
                          ContextWithin(result.elems[i], args.beforeCount)

\* C21: a Search call with beforeCount N >= 1 transmits beforeBlockCount=N,
\* and when the remote answered it every match has at most N blocks in
\* BeforeBlocks, and fewer than N only when fewer blocks precede the match
\* in document order; with N <= 0 the parameter is not transmitted, and the
\* number of context blocks is the remote's choice.
C21_ContextBounded ==
    (pc = "returned" /\ op = "Search" /\ requests # <<>>) =>
        LET q == requests[1].url.query
            N == args.beforeCount
        IN  IF N >= 1
            THEN /\ HasParam(q, "beforeBlockCount")
                 /\ ParamValue(q, "beforeBlockCount") = Itoa(N)
                 /\ SearchAnswered => \A i \in 1..Len(result.elems) :
                                          ContextWithin(result.elems[i], N)
            ELSE ~HasParam(q, "beforeBlockCount")

\* a search with beforeCount 2 in a document of four blocks: the first
\* match has no block before it, the last has three and returns the nearest two
C21_Witness ==
    /\ SearchAnswered /\ args.beforeCount = 2
    /\ doc = <<"1", NewID(2), NewID(1), "2">>
    /\ Len(result.elems) = 2
    /\ result.elems[1].BlockID = "1" /\ result.elems[1].BeforeBlocks = <<>>
    /\ result.elems[2].BlockID = "2"
    /\ result.elems[2].BeforeBlocks =
           <<[BlockID |-> NewID(2), Markdown |-> "Hi"], [BlockID |-> NewID(1), Markdown |-> "Hi"]>>

----------------------------------------------------------------------------
(* The width of a decoded Block *)

\* FetchBlocks was answered 200 with a block object
BlockAnswered ==
    /\ Answered /\ op = "FetchBlocks" /\ exchange.resp.status = StatusOK
    /\ exchange.resp.body.syntax = "object" /\ exchange.resp.body.idKind = "string"

\* C22: a Block whose JSON has "width": "auto" and one whose JSON has
\* "width": 600 both decode without error, to the string auto and to the
\* number 600; a Block without width decodes to nil; and the Width decoded
\* from a width member that is not null differs from the Width any other
\* such member decodes to (the string "600" and the number 600 included).
C22_WidthDistinct ==
    BlockAnswered =>
        LET w == exchange.resp.body.width
        IN  /\ err = NoErr /\ ~result.isNil
            /\ w = WidthString("auto") => result.val.Width = [type |-> "string", val |-> "auto"]
            /\ w = WidthNumber("600") => result.val.Width = [type |-> "float64", val |-> "600"]
            /\ w = NoWidth => result.val.Width = NilWidth
            /\ w # NullWidth =>
                   \A v \in WidthMembers \ {NullWidth, w} : DecodeWidth(v) # result.val.Width

\* a fetched image block with "width": "auto" was decoded
C22_Witness ==
    /\ BlockAnswered /\ exchange.resp.body = BlockWide("1", WidthString("auto"))
    /\ err = NoErr /\ result.val.ID = "1"
    /\ result.val.Width = [type |-> "string", val |-> "auto"]

----------------------------------------------------------------------------
(* The first inserted block in the demo handler *)

\* the insert of the handler of request h returned with a nil error
InsertReturned(h) ==
    /\ Done(h) /\ Len(handlers[h].log) = 2
    /\ handlers[h].log[2].call.op = "InsertBlocks" /\ handlers[h].log[2].err = NoErr

\* C23: whenever InsertBlocks returned to the handler with a nil error, the
\* list it returned has at least one block, reading insertedBlocks[0] does
\* not panic, and the handler has written the 200 response with the query.
C23_FirstBlockInRange ==
    \A h \in Handlers : InsertReturned(h) =>
        /\ Len(handlers[h].log[2].result.elems) >= 1
        /\ ~handlers[h].panicked
        /\ handlers[h].responses =
               <<HTTPJSON([Status |-> "created", Query |-> handlers[h].query])>>

----------------------------------------------------------------------------
(* The content of the insert the demo handler sends *)

\* C24: for every POST whose body decodes, the insert request that is sent
\* carries a markdown member equal to the query of the request and no blocks
\* member, whatever the query is (the empty string and a body without query
\* member included).
C24_MarkdownIsQuery ==
    \A h \in Handlers :
        \A i \in 1..Len(handlers[h].log) :
            handlers[h].log[i].call.op = "InsertBlocks" =>
                LET sent == handlers[h].log[i].req.body
                IN  /\ "markdown" \in sent.members
                    /\ sent.markdown = handlers[h].query
                    /\ "blocks" \notin sent.members

----------------------------------------------------------------------------
(* Result and error of a call *)

\* C25: every call of every method that returns an error returns the zero
\* value of its result type with it (a nil pointer, a nil list, the empty
\* string), also when part of the answer had been decoded before the
\* failure; and FetchBlocks and GenerateUploadURL return a pointer that is
\* not nil when they return no error.
C25_ErrorOrResult ==
    (pc = "returned" /\ op \in AllOps) =>
        /\ err # NoErr => result = ZeroResult(op)
        /\ (err = NoErr /\ op \in {"FetchBlocks", "GenerateUploadURL"}) => ~result.isNil

\* DeleteBlocks answered 200 with an item that decodes and one that does
\* not returned the error and no id
C25_Witness ==
    /\ Answered /\ op = "DeleteBlocks" /\ exchange.resp.status = StatusOK
    /\ exchange.resp.body = Envelope(<<ElemObj("1"), ElemNumber>>)
    /\ err = Errorf("unmarshaling deleted IDs") /\ result = NilSlice

----------------------------------------------------------------------------
(* Requests handled concurrently by the demo endpoint *)

\* the handler of request h has written the 200 response
Created(h) ==
    /\ Done(h) /\ handlers[h].responses # <<>>
    /\ handlers[h].responses[1].status = StatusOK

\* C26: under every interleaving of the handlers, each request sends its
\* calls through a Client of its own made with the base URL, inserts at the
\* root id its own fetch returned, and when it ends in 200 it has made
\* exactly one insert, carrying its own query, and its response echoes its
\* own query and not the different query of another request.
C26_OwnRequest ==
    \A h \in Handlers :
        LET f == handlers[h]
            inserts == {i \in 1..Len(f.log) : f.log[i].call.op = "InsertBlocks"}
        IN  /\ \A i \in 1..Len(f.log) : f.log[i].req.url.base = GoodBaseURL
            /\ \A i \in inserts :
                  /\ f.log[1].call = RootFetch
                  /\ f.log[i].call.args.req.position.PageID = f.log[1].result.val.ID
                  /\ f.log[i].call.args.req.markdown = f.input.query
            /\ Created(h) =>
                  /\ Cardinality(inserts) = 1
                  /\ f.responses[1].json.Query = f.input.query
                  /\ \A g \in Handlers \ {h} :
                        handlers[g].input.query # f.input.query =>
                            f.responses[1].json.Query # handlers[g].input.query

\* two requests with different queries both ended in 200, and the block of
\* the second request stands before the block of the first in the remote
\* document
C26_Witness ==
    /\ Created(1) /\ Created(2)
    /\ handlers[1].input.query = "Hello" /\ handlers[2].input.query = "Hi"
    /\ handlers[1].log[2].origin = "remote" /\ handlers[2].log[2].origin = "remote"
    /\ handlers[1].log[2].applied = {NewID(2)} /\ handlers[2].log[2].applied = {NewID(1)}
    /\ doc = <<"1", "2", NewID(1), NewID(2)>>
    /\ content[NewID(1)] = "Hi" /\ content[NewID(2)] = "Hello"

====
